---- MODULE Spec2Model ----
(***************************************************************************)
(* State-machine model of the "chat with your PDF" front end: the          *)
(* application state store (appReducer), the FileUpload and ChatInterface  *)
(* components, the PDFViewer, and the usePDF / useChat hooks, together     *)
(* with the HTTP gateway's error normalisation.                            *)
(*                                                                         *)
(* Execution is single threaded and run-to-completion: one action of the   *)
(* model is one event handler or one continuation of an async function     *)
(* (the code between two awaits), with every dispatch it makes and the     *)
(* render and effects that follow it.  The backend is the environment: it  *)
(* answers 2xx with a JSON object (fields may be missing) or the call is   *)
(* rejected with a failure the gateway normalises to a message.            *)
(***************************************************************************)
EXTENDS Integers, Sequences, FiniteSets, Bags, TLC

(***************************************************************************)
(* JavaScript values.  null and undefined are records of their own; a      *)
(* string is Str(pieces), pieces a tuple of string fragments (single       *)
(* characters where the code looks into the string); an object is a        *)
(* record, a missing property is a field that is not in its DOMAIN.        *)
(***************************************************************************)
Null == [js |-> "null"]

Undefined == [js |-> "undefined"]

Str(pieces) == [str |-> pieces]

\* JavaScript truthiness of null, undefined, strings and objects.
Truthy(v) == v # Null /\ v # Undefined /\ v # Str(<<>>)

\* obj.name, undefined when the property is missing.
Prop(obj, name) == IF name \in DOMAIN obj THEN obj[name] ELSE Undefined

\* a || b
OrElse(a, b) == IF Truthy(a) THEN a ELSE b

(***************************************************************************)
(* Bounds of the model.                                                    *)
(***************************************************************************)
\* A chat send is taken up while the transcript holds fewer than MaxMsgs
\* messages.
MaxMsgs == 2

\* Asynchronous continuations pending at once: gateway calls in flight,
\* typing delays and settle timers.
MaxPending == 2

\* Progress intervals of the mounted FileUpload set at once.
MaxIntervals == 1

(***************************************************************************)
(* utils/constants.js                                                      *)
(***************************************************************************)
MAX_FILE_SIZE == 10 * 1024 * 1024

ALLOWED_FILE_TYPES == {"application/pdf"}

ERROR_MESSAGES ==
    [FILE_TOO_LARGE    |-> Str(<<"File size must be less than ",
                                 ToString(MAX_FILE_SIZE \div (1024 * 1024)), "MB">>),
     INVALID_FILE_TYPE |-> Str(<<"Only PDF files are allowed">>),
     UPLOAD_FAILED     |-> Str(<<"Failed to upload file. Please try again.">>),
     CHAT_FAILED       |-> Str(<<"Failed to send message. Please try again.">>),
     PDF_LOAD_ERROR    |-> Str(<<"Failed to load PDF. The file might be corrupted.">>)]

STORAGE_KEYS ==
    [SESSION_ID   |-> "notebooklm_session_id",
     CHAT_HISTORY |-> "notebooklm_chat_history"]

\* The keys the modelled operations write.
STORAGE_KEYS_USED == {STORAGE_KEYS.SESSION_ID}

MESSAGE_TYPES ==
    [USER |-> "user", ASSISTANT |-> "assistant", SYSTEM |-> "system", ERROR |-> "error"]

(***************************************************************************)
(* The store: contexts/AppContext                                          *)
(***************************************************************************)
initialState ==
    [pdfFile      |-> Null,
     pdfDocument  |-> Null,
     currentPage  |-> 1,
     totalPages   |-> 0,
     chatMessages |-> <<>>,
     isLoading    |-> FALSE,
     sessionId    |-> Null,
     error        |-> Null,
     citations    |-> <<>>]

\* An action object {type, payload}.
Act(type, payload) == [type |-> type, payload |-> payload]

\* The reducer with SET_ERROR leaving isLoading as it was.
appReducer_errorKeepsLoading(state, action) ==
    CASE action.type = "SET_PDF_FILE"     -> [state EXCEPT !.pdfFile = action.payload]
      [] action.type = "SET_PDF_DOCUMENT" -> [state EXCEPT !.pdfDocument = action.payload]
      [] action.type = "SET_CURRENT_PAGE" -> [state EXCEPT !.currentPage = action.payload]
      [] action.type = "SET_TOTAL_PAGES"  -> [state EXCEPT !.totalPages = action.payload]
      [] action.type = "ADD_CHAT_MESSAGE" ->
            [state EXCEPT !.chatMessages = Append(@, action.payload)]
      [] action.type = "SET_LOADING"      -> [state EXCEPT !.isLoading = action.payload]
      [] action.type = "SET_SESSION_ID"   -> [state EXCEPT !.sessionId = action.payload]
      [] action.type = "SET_ERROR"        -> [state EXCEPT !.error = action.payload]
      [] action.type = "CLEAR_ERROR"      -> [state EXCEPT !.error = Null]
      [] action.type = "ADD_CITATION"     ->
            [state EXCEPT !.citations = Append(@, action.payload)]
      [] action.type = "CLEAR_CHAT"       ->
            [state EXCEPT !.chatMessages = <<>>, !.citations = <<>>, !.error = Null]
      [] action.type = "RESET_STATE"      -> initialState
      [] OTHER                            -> state

\* The reducer with ADD_CHAT_MESSAGE putting the message first.
appReducer_prepends(state, action) ==
    CASE action.type = "SET_PDF_FILE"     -> [state EXCEPT !.pdfFile = action.payload]
      [] action.type = "SET_PDF_DOCUMENT" -> [state EXCEPT !.pdfDocument = action.payload]
      [] action.type = "SET_CURRENT_PAGE" -> [state EXCEPT !.currentPage = action.payload]
      [] action.type = "SET_TOTAL_PAGES"  -> [state EXCEPT !.totalPages = action.payload]
      [] action.type = "ADD_CHAT_MESSAGE" ->
            [state EXCEPT !.chatMessages = <<action.payload>> \o @]
      [] action.type = "SET_LOADING"      -> [state EXCEPT !.isLoading = action.payload]
      [] action.type = "SET_SESSION_ID"   -> [state EXCEPT !.sessionId = action.payload]
      [] action.type = "SET_ERROR"        ->
            [state EXCEPT !.error = action.payload, !.isLoading = FALSE]
      [] action.type = "CLEAR_ERROR"      -> [state EXCEPT !.error = Null]
      [] action.type = "ADD_CITATION"     ->
            [state EXCEPT !.citations = Append(@, action.payload)]
      [] action.type = "CLEAR_CHAT"       ->
            [state EXCEPT !.chatMessages = <<>>, !.citations = <<>>, !.error = Null]
      [] action.type = "RESET_STATE"      -> initialState
      [] OTHER                            -> state

\* The reducer with SET_ERROR also dropping the session.
appReducer_errorClearsSession(state, action) ==
    CASE action.type = "SET_PDF_FILE"     -> [state EXCEPT !.pdfFile = action.payload]
      [] action.type = "SET_PDF_DOCUMENT" -> [state EXCEPT !.pdfDocument = action.payload]
      [] action.type = "SET_CURRENT_PAGE" -> [state EXCEPT !.currentPage = action.payload]
      [] action.type = "SET_TOTAL_PAGES"  -> [state EXCEPT !.totalPages = action.payload]
      [] action.type = "ADD_CHAT_MESSAGE" ->
            [state EXCEPT !.chatMessages = Append(@, action.payload)]
      [] action.type = "SET_LOADING"      -> [state EXCEPT !.isLoading = action.payload]
      [] action.type = "SET_SESSION_ID"   -> [state EXCEPT !.sessionId = action.payload]
      [] action.type = "SET_ERROR"        ->
            [state EXCEPT !.error = action.payload, !.isLoading = FALSE,
                          !.sessionId = Null]
      [] action.type = "CLEAR_ERROR"      -> [state EXCEPT !.error = Null]
      [] action.type = "ADD_CITATION"     ->
            [state EXCEPT !.citations = Append(@, action.payload)]
      [] action.type = "CLEAR_CHAT"       ->
            [state EXCEPT !.chatMessages = <<>>, !.citations = <<>>, !.error = Null]
      [] action.type = "RESET_STATE"      -> initialState
      [] OTHER                            -> state

\* The reducer with CLEAR_CHAT leaving the citations.
appReducer_clearKeepsCitations(state, action) ==
    CASE action.type = "SET_PDF_FILE"     -> [state EXCEPT !.pdfFile = action.payload]
      [] action.type = "SET_PDF_DOCUMENT" -> [state EXCEPT !.pdfDocument = action.payload]
      [] action.type = "SET_CURRENT_PAGE" -> [state EXCEPT !.currentPage = action.payload]
      [] action.type = "SET_TOTAL_PAGES"  -> [state EXCEPT !.totalPages = action.payload]
      [] action.type = "ADD_CHAT_MESSAGE" ->
            [state EXCEPT !.chatMessages = Append(@, action.payload)]
      [] action.type = "SET_LOADING"      -> [state EXCEPT !.isLoading = action.payload]
      [] action.type = "SET_SESSION_ID"   -> [state EXCEPT !.sessionId = action.payload]
      [] action.type = "SET_ERROR"        ->
            [state EXCEPT !.error = action.payload, !.isLoading = FALSE]
      [] action.type = "CLEAR_ERROR"      -> [state EXCEPT !.error = Null]
      [] action.type = "ADD_CITATION"     ->
            [state EXCEPT !.citations = Append(@, action.payload)]
      [] action.type = "CLEAR_CHAT"       ->
            [state EXCEPT !.chatMessages = <<>>, !.error = Null]
      [] action.type = "RESET_STATE"      -> initialState
      [] OTHER                            -> state

\* The reducer with RESET_STATE keeping the session.
appReducer_resetKeepsSession(state, action) ==
    CASE action.type = "SET_PDF_FILE"     -> [state EXCEPT !.pdfFile = action.payload]
      [] action.type = "SET_PDF_DOCUMENT" -> [state EXCEPT !.pdfDocument = action.payload]
      [] action.type = "SET_CURRENT_PAGE" -> [state EXCEPT !.currentPage = action.payload]
      [] action.type = "SET_TOTAL_PAGES"  -> [state EXCEPT !.totalPages = action.payload]
      [] action.type = "ADD_CHAT_MESSAGE" ->
            [state EXCEPT !.chatMessages = Append(@, action.payload)]
      [] action.type = "SET_LOADING"      -> [state EXCEPT !.isLoading = action.payload]
      [] action.type = "SET_SESSION_ID"   -> [state EXCEPT !.sessionId = action.payload]
      [] action.type = "SET_ERROR"        ->
            [state EXCEPT !.error = action.payload, !.isLoading = FALSE]
      [] action.type = "CLEAR_ERROR"      -> [state EXCEPT !.error = Null]
      [] action.type = "ADD_CITATION"     ->
            [state EXCEPT !.citations = Append(@, action.payload)]
      [] action.type = "CLEAR_CHAT"       ->
            [state EXCEPT !.chatMessages = <<>>, !.citations = <<>>, !.error = Null]
      [] action.type = "RESET_STATE"      -> [initialState EXCEPT !.sessionId = state.sessionId]
      [] OTHER                            -> state

\* The reducer reporting an action type it does not know.
appReducer_unknownSetsError(state, action) ==
    CASE action.type = "SET_PDF_FILE"     -> [state EXCEPT !.pdfFile = action.payload]
      [] action.type = "SET_PDF_DOCUMENT" -> [state EXCEPT !.pdfDocument = action.payload]
      [] action.type = "SET_CURRENT_PAGE" -> [state EXCEPT !.currentPage = action.payload]
      [] action.type = "SET_TOTAL_PAGES"  -> [state EXCEPT !.totalPages = action.payload]
      [] action.type = "ADD_CHAT_MESSAGE" ->
            [state EXCEPT !.chatMessages = Append(@, action.payload)]
      [] action.type = "SET_LOADING"      -> [state EXCEPT !.isLoading = action.payload]
      [] action.type = "SET_SESSION_ID"   -> [state EXCEPT !.sessionId = action.payload]
      [] action.type = "SET_ERROR"        ->
            [state EXCEPT !.error = action.payload, !.isLoading = FALSE]
      [] action.type = "CLEAR_ERROR"      -> [state EXCEPT !.error = Null]
      [] action.type = "ADD_CITATION"     ->
            [state EXCEPT !.citations = Append(@, action.payload)]
      [] action.type = "CLEAR_CHAT"       ->
            [state EXCEPT !.chatMessages = <<>>, !.citations = <<>>, !.error = Null]
      [] action.type = "RESET_STATE"      -> initialState
      [] OTHER                            ->
            [state EXCEPT !.error = Str(<<"U", "n", "k", "n", "o", "w", "n">>)]

appReducer(state, action) ==
    CASE action.type = "SET_PDF_FILE"     -> [state EXCEPT !.pdfFile = action.payload]
      [] action.type = "SET_PDF_DOCUMENT" -> [state EXCEPT !.pdfDocument = action.payload]
      [] action.type = "SET_CURRENT_PAGE" -> [state EXCEPT !.currentPage = action.payload]
      [] action.type = "SET_TOTAL_PAGES"  -> [state EXCEPT !.totalPages = action.payload]
      [] action.type = "ADD_CHAT_MESSAGE" ->
            [state EXCEPT !.chatMessages = Append(@, action.payload)]
      [] action.type = "SET_LOADING"      -> [state EXCEPT !.isLoading = action.payload]
      [] action.type = "SET_SESSION_ID"   -> [state EXCEPT !.sessionId = action.payload]
      [] action.type = "SET_ERROR"        ->
            [state EXCEPT !.error = action.payload, !.isLoading = FALSE]
      [] action.type = "CLEAR_ERROR"      -> [state EXCEPT !.error = Null]
      [] action.type = "ADD_CITATION"     ->
            [state EXCEPT !.citations = Append(@, action.payload)]
      [] action.type = "CLEAR_CHAT"       ->
            [state EXCEPT !.chatMessages = <<>>, !.citations = <<>>, !.error = Null]
      [] action.type = "RESET_STATE"      -> initialState
      [] OTHER                            -> state

\* dispatch called for each action of a tuple in turn (one handler's batch).
RECURSIVE Dispatch(_, _)
Dispatch(state, actions) ==
    IF actions = <<>> THEN state
    ELSE Dispatch(appReducer(state, Head(actions)), Tail(actions))

(***************************************************************************)
(* services/api: the response interceptor and handleApiError               *)
(***************************************************************************)
\* A rejected call, as the interceptor receives it: a response with a status
\* and a body, a request that got no response, or a failure before sending.
HttpFailure(status, data) == [kind |-> "response", status |-> status, data |-> data]

NoResponse == [kind |-> "request"]

SetupFailure(message) == [kind |-> "setup", message |-> message]

\* The interceptor without its case for 404.
interceptorMessage_no404(error) ==
    IF error.kind = "response" THEN
        LET message == OrElse(Prop(error.data, "detail"),
                              OrElse(Prop(error.data, "message"),
                                     Str(<<"An error occurred">>)))
        IN  CASE error.status = 400 -> Str(<<"Bad Request: ">> \o message.str)
              [] error.status = 401 -> Str(<<"Unauthorized access">>)
              [] error.status = 403 -> Str(<<"Access forbidden">>)
              [] error.status = 429 -> Str(<<"Too many requests. Please try again later.">>)
              [] error.status = 500 -> Str(<<"Internal server error. Please try again.">>)
              [] OTHER -> Str(<<"Server error (", ToString(error.status), "): ">>
                              \o message.str)
    ELSE IF error.kind = "request" THEN
        Str(<<"Unable to connect to server. Please check your connection.">>)
    ELSE
        OrElse(error.message, Str(<<"An unexpected error occurred">>))

\* The message of the Error the response interceptor throws.
interceptorMessage(error) ==
    IF error.kind = "response" THEN
        LET message == OrElse(Prop(error.data, "detail"),
                              OrElse(Prop(error.data, "message"),
                                     Str(<<"An error occurred">>)))
        IN  CASE error.status = 400 -> Str(<<"Bad Request: ">> \o message.str)
              [] error.status = 401 -> Str(<<"Unauthorized access">>)
              [] error.status = 403 -> Str(<<"Access forbidden">>)
              [] error.status = 404 -> Str(<<"Resource not found">>)
              [] error.status = 429 -> Str(<<"Too many requests. Please try again later.">>)
              [] error.status = 500 -> Str(<<"Internal server error. Please try again.">>)
              [] OTHER -> Str(<<"Server error (", ToString(error.status), "): ">>
                              \o message.str)
    ELSE IF error.kind = "request" THEN
        Str(<<"Unable to connect to server. Please check your connection.">>)
    ELSE
        OrElse(error.message, Str(<<"An unexpected error occurred">>))

\* handleApiError(error, defaultMessage), error an Error with a message.
handleApiError(error, defaultMessage) ==
    IF Truthy(error.message) THEN error.message ELSE defaultMessage

\* The Error a rejected gateway call throws into its caller.
GatewayError(failure) == [message |-> interceptorMessage(failure)]

(***************************************************************************)
(* Text: String.prototype.trim and ChatInterface's extractCitations        *)
(***************************************************************************)
IsSpace(c) == c \in {" ", "\t", "\n"}

IsDigit(c) == c \in {"0", "1", "2", "3", "4", "5", "6", "7", "8", "9"}

RECURSIVE TrimStart(_)
TrimStart(cs) ==
    IF cs # <<>> /\ IsSpace(Head(cs)) THEN TrimStart(Tail(cs)) ELSE cs

RECURSIVE TrimEnd(_)
TrimEnd(cs) ==
    IF cs # <<>> /\ IsSpace(cs[Len(cs)]) THEN TrimEnd(SubSeq(cs, 1, Len(cs) - 1)) ELSE cs

\* text.trim()
trim(text) == Str(TrimEnd(TrimStart(text.str)))

\* The letter as it is: the regular expression without its i flag.
ToLower_caseSensitive(c) == c

\* The letter c in lower case (the regular expression's i flag).
ToLower(c) ==
    CASE c = "P" -> "p" [] c = "A" -> "a" [] c = "G" -> "g" [] c = "E" -> "e"
      [] OTHER -> c

DigitValue(c) ==
    CASE c = "0" -> 0 [] c = "1" -> 1 [] c = "2" -> 2 [] c = "3" -> 3 [] c = "4" -> 4
      [] c = "5" -> 5 [] c = "6" -> 6 [] c = "7" -> 7 [] c = "8" -> 8 [] c = "9" -> 9

\* parseInt of a string of decimal digits.
RECURSIVE parseInt(_)
parseInt(ds) ==
    IF ds = <<>> THEN 0
    ELSE 10 * parseInt(SubSeq(ds, 1, Len(ds) - 1)) + DigitValue(ds[Len(ds)])

\* How many characters from position i on satisfy the class (greedy + or *).
RECURSIVE RunOfSpaces(_, _)
RunOfSpaces(cs, i) ==
    IF i <= Len(cs) /\ IsSpace(cs[i]) THEN 1 + RunOfSpaces(cs, i + 1) ELSE 0

RECURSIVE RunOfDigits(_, _)
RunOfDigits(cs, i) ==
    IF i <= Len(cs) /\ IsDigit(cs[i]) THEN 1 + RunOfDigits(cs, i + 1) ELSE 0

\* /\(Page\s+(\d+)\)/i matched at position i: the position of the closing
\* parenthesis and the digits captured, or no match.
MatchAt(cs, i) ==
    LET ws == RunOfSpaces(cs, i + 5)
        ds == RunOfDigits(cs, i + 5 + ws)
        close == i + 5 + ws + ds
    IN  IF /\ i + 4 <= Len(cs)
           /\ cs[i] = "("
           /\ <<ToLower(cs[i + 1]), ToLower(cs[i + 2]), ToLower(cs[i + 3]),
                ToLower(cs[i + 4])>> = <<"p", "a", "g", "e">>
           /\ ws >= 1
           /\ ds >= 1
           /\ close <= Len(cs)
           /\ cs[close] = ")"
        THEN [matched |-> TRUE, last |-> close,
              digits |-> SubSeq(cs, i + 5 + ws, close - 1)]
        ELSE [matched |-> FALSE]

\* The while loop over citationRegex.exec(text), from position i on.
RECURSIVE ExecFrom(_, _)
ExecFrom(cs, i) ==
    IF i > Len(cs) THEN <<>>
    ELSE LET m == MatchAt(cs, i)
         IN  IF m.matched
             THEN <<[page       |-> parseInt(m.digits),
                     text       |-> Str(<<"P", "a", "g", "e", " ">> \o m.digits),
                     confidence |-> "0.9",
                     type       |-> "page_reference"]>> \o ExecFrom(cs, m.last + 1)
             ELSE ExecFrom(cs, i + 1)

extractCitations(text) == ExecFrom(text.str, 1)

(***************************************************************************)
(* The environment: the files a user can pick, what a caller can hand to   *)
(* the hooks, and what the backend can answer.                             *)
(***************************************************************************)
\* A File (or, with isBlob FALSE, an object a hook's caller passes as one).
File(name, size, type, isBlob) ==
    [name |-> name, size |-> size, type |-> type, isBlob |-> isBlob]

DocPdf == File("doc.pdf", MAX_FILE_SIZE, "application/pdf", TRUE)

HugePdf == File("huge.pdf", MAX_FILE_SIZE + 1, "application/pdf", TRUE)

NotesTxt == File("notes.txt", 2 * 1024 * 1024, "text/plain", TRUE)

FakePdf == File("fake.pdf", 1024, "application/pdf", FALSE)

\* Files of a drop or of the file input: always File objects.
PickedFiles == {DocPdf, HugePdf, NotesTxt}

\* Arguments of usePDF.uploadPDF besides null.
HookFiles == {HugePdf, NotesTxt, FakePdf}

\* Bodies of a 2xx answer to POST /upload.
UploadResponses ==
    {[session_id |-> Str(<<"s1">>), message |-> "ok"],
     [message |-> "ok"]}

\* Ways a call is rejected.
Failures == {NoResponse}

(***************************************************************************)
(* State                                                                   *)
(***************************************************************************)
VARIABLES
    state,        \* the store's ApplicationState
    isUploading,  \* FileUpload's local state (of the mounted instance)
    uploadProgress,   \* FileUpload's simulated progress (of the mounted instance)
    progressInterval, \* the interval of the upload in progress is set
    leftIntervals,    \* intervals of failed uploads, never cleared, still set
    message,      \* ChatInterface's input text
    isTyping,     \* ChatInterface's typing indicator
    uploads,      \* bag of upload calls in flight: [via, file, live]
    chats,        \* bag of chat sends in flight: [via, text, sessionId, phase, live]
    timers,       \* pending settle timers of handleFileUpload
    lookups,      \* bag of GET calls in flight: [by, sessionId]
    localStorage, \* window.localStorage: key -> string, or null without the key
    refusal,      \* the call the last step refused and what it returned
    call,         \* the last direct application of a function: [fn, args]
    result,       \* what that application returned
    objectURLs,   \* bag of the object URLs created and not revoked: [of]
    now           \* Date.now(), in milliseconds since the page was opened

vars == <<state, isUploading, uploadProgress, progressInterval, leftIntervals,
          message, isTyping, uploads, chats, timers, lookups, localStorage,
          refusal, call, result, objectURLs, now>>

\* Storage.setItem(key, value): the value is stored as a string.
setItem(storage, key, value) ==
    [storage EXCEPT ![key] = IF value = Undefined THEN Str(<<"undefined">>)
                             ELSE IF value = Null THEN Str(<<"null">>)
                             ELSE value]

\* Storage.removeItem(key).
removeItem(storage, key) ==
    IF key \in DOMAIN storage THEN [storage EXCEPT ![key] = Null] ELSE storage

\* No call was refused.
NoRefusal == [by |-> "none"]

\* No function has been applied directly.
NoCall == [fn |-> "none"]

\* Bags of pending continuations.
Add(bag, e) == bag (+) SetToBag({e})

Del(bag, e) == bag (-) SetToBag({e})

Pending ==
    BagCardinality(uploads) + BagCardinality(chats) + BagCardinality(lookups) + timers

\* App.jsx: FileUpload is rendered while there is no pdfFile, PDFViewer and
\* ChatInterface while there is one.
FileUploadMounted(s) == ~Truthy(s.pdfFile)

ViewerMounted(s) == Truthy(s.pdfFile)

\* PDFViewer's effect on [pdfFile]: it runs when pdfFile changed; createObjectURL
\* throws for an argument that is no Blob, and the catch dispatches SET_ERROR.
PDFViewerEffect(old, new) ==
    IF Truthy(new.pdfFile) /\ new.pdfFile # old.pdfFile /\ ~new.pdfFile.isBlob
    THEN appReducer(new, Act("SET_ERROR", ERROR_MESSAGES.PDF_LOAD_ERROR))
    ELSE new

\* The effect's bookkeeping without the cleanup it returns.
ObjectURLsAfter_noCleanup(old, new) ==
    IF new.pdfFile = old.pdfFile THEN objectURLs
    ELSE IF Truthy(new.pdfFile) /\ new.pdfFile.isBlob
         THEN Add(objectURLs, [of |-> new.pdfFile])
         ELSE objectURLs

\* The object URLs after PDFViewer's effect on [pdfFile]: when pdfFile
\* changed, or the viewer is unmounted, the cleanup of the last run revokes
\* the URL that run created; a run for a new pdfFile creates one, unless
\* createObjectURL throws.
ObjectURLsAfter(old, new) ==
    IF new.pdfFile = old.pdfFile THEN objectURLs
    ELSE LET kept == IF Truthy(old.pdfFile) /\ old.pdfFile.isBlob
                     THEN Del(objectURLs, [of |-> old.pdfFile])
                     ELSE objectURLs
         IN  IF Truthy(new.pdfFile) /\ new.pdfFile.isBlob
             THEN Add(kept, [of |-> new.pdfFile])
             ELSE kept

\* The bag with the requests a component's instance started marked as
\* outliving it (their local setters no longer reach a mounted instance).
Orphaned(bag, via) ==
    LET orphan(e) == IF e.via = via THEN [e EXCEPT !.live = FALSE] ELSE e
        after == {orphan(e) : e \in BagToSet(bag)}
    IN  [t \in after |->
            IF t.via = via
            THEN CopiesIn([t EXCEPT !.live = TRUE], bag) + CopiesIn(t, bag)
            ELSE CopiesIn(t, bag)]

\* The render after a handler: the store as dispatched to, then the viewer's
\* effect; a component that is not rendered loses its local state, and its
\* next instance starts from useState's initial values.
Commit(newState, newIsUploading, newMessage, newIsTyping, newUploads, newChats) ==
    LET s == PDFViewerEffect(state, newState)
    IN  /\ state' = s
        /\ isUploading' = IF FileUploadMounted(s) THEN newIsUploading ELSE FALSE
        /\ uploads' = IF FileUploadMounted(s) THEN newUploads
                      ELSE Orphaned(newUploads, "FileUpload")
        /\ message' = IF ViewerMounted(s) THEN newMessage ELSE Str(<<>>)
        /\ isTyping' = IF ViewerMounted(s) THEN newIsTyping ELSE FALSE
        /\ chats' = IF ViewerMounted(s) THEN newChats
                    ELSE Orphaned(newChats, "ChatInterface")
        /\ objectURLs' = ObjectURLsAfter(state, s)

\* FileUpload's progress state after a handler, given the store state'
\* the handler leaves: an instance that is not rendered loses it, and what
\* its intervals do no longer reaches any state.
Progress(newUploadProgress, newProgressInterval, newLeftIntervals) ==
    IF FileUploadMounted(state')
    THEN /\ uploadProgress' = newUploadProgress
         /\ progressInterval' = newProgressInterval
         /\ leftIntervals' = newLeftIntervals
    ELSE /\ uploadProgress' = 0
         /\ progressInterval' = FALSE
         /\ leftIntervals' = 0

KeepProgress == Progress(uploadProgress, progressInterval, leftIntervals)

Init ==
    /\ state = initialState
    /\ isUploading = FALSE
    /\ uploadProgress = 0
    /\ progressInterval = FALSE
    /\ leftIntervals = 0
    /\ message = Str(<<>>)
    /\ isTyping = FALSE
    /\ uploads = EmptyBag
    /\ chats = EmptyBag
    /\ timers = 0
    /\ lookups = EmptyBag
    /\ localStorage = [k \in STORAGE_KEYS_USED |-> Null]
    /\ refusal = NoRefusal
    /\ call = NoCall
    /\ result = Undefined
    /\ objectURLs = EmptyBag
    /\ now = 0

(***************************************************************************)
(* FileUpload                                                              *)
(***************************************************************************)
\* validateFile(file): the message of the Error it throws, or null.
validateFile(file) ==
    IF ~Truthy(file) THEN Str(<<"No file selected">>)
    ELSE IF file.size > MAX_FILE_SIZE THEN ERROR_MESSAGES.FILE_TOO_LARGE
    ELSE IF file.type \notin ALLOWED_FILE_TYPES THEN ERROR_MESSAGES.INVALID_FILE_TYPE
    ELSE Null

\* handleDrop / handleFileInput -> handleFileUpload(file), up to its await.
\* The drop zone takes no pointer events and the input is disabled while
\* isUploading.
handleFileUpload(file) ==
    /\ FileUploadMounted(state)
    /\ ~isUploading
    /\ LET invalid == validateFile(file)
       IN  IF invalid # Null
           THEN /\ Commit(Dispatch(state, <<Act("SET_ERROR",
                              handleApiError([message |-> invalid],
                                             ERROR_MESSAGES.UPLOAD_FAILED))>>),
                          FALSE, message, isTyping, uploads, chats)
                /\ Progress(0, progressInterval, leftIntervals)
                /\ UNCHANGED <<now, call, result>>
                /\ refusal' = NoRefusal /\ UNCHANGED <<localStorage, lookups>>
           ELSE /\ Pending < MaxPending
                /\ leftIntervals < MaxIntervals
                /\ Commit(Dispatch(state, <<Act("CLEAR_ERROR", Null),
                                            Act("SET_LOADING", TRUE)>>),
                          TRUE, message, isTyping,
                          Add(uploads, [via |-> "FileUpload", file |-> file,
                                        live |-> TRUE]),
                          chats)
                /\ Progress(0, TRUE, leftIntervals)
                /\ UNCHANGED <<now, call, result>>
                /\ refusal' = NoRefusal /\ UNCHANGED <<localStorage, lookups>>
    /\ UNCHANGED timers

\* handleFileUploadResolved with the whole response body as the session id.
handleFileUploadResolved_storesResponse(u, response) ==
    /\ BagIn(u, uploads)
    /\ u.via = "FileUpload"
    /\ Commit(Dispatch(state, <<Act("SET_PDF_FILE", u.file),
                                Act("SET_SESSION_ID", response)>>),
              isUploading, message, isTyping, Del(uploads, u), chats)
    /\ timers' = timers + 1
    /\ Progress(100, FALSE, leftIntervals)
    /\ UNCHANGED <<now, call, result>>
    /\ refusal' = NoRefusal /\ UNCHANGED <<localStorage, lookups>>

\* handleFileUpload after apiService.uploadPDF resolved with response.
handleFileUploadResolved(u, response) ==
    /\ BagIn(u, uploads)
    /\ u.via = "FileUpload"
    /\ Commit(Dispatch(state, <<Act("SET_PDF_FILE", u.file),
                                Act("SET_SESSION_ID", Prop(response, "session_id"))>>),
              isUploading, message, isTyping, Del(uploads, u), chats)
    /\ timers' = timers + 1
    /\ Progress(100, FALSE, leftIntervals)
    /\ UNCHANGED <<now, call, result>>
    /\ refusal' = NoRefusal /\ UNCHANGED <<localStorage, lookups>>

\* handleFileUpload's catch after apiService.uploadPDF was rejected.  The
\* catch does not clear progressInterval, which stays set.
handleFileUploadRejected(u, failure) ==
    /\ BagIn(u, uploads)
    /\ u.via = "FileUpload"
    /\ Commit(Dispatch(state, <<Act("SET_ERROR",
                  handleApiError(GatewayError(failure), ERROR_MESSAGES.UPLOAD_FAILED))>>),
              IF u.live THEN FALSE ELSE isUploading,
              message, isTyping, Del(uploads, u), chats)
    /\ IF u.live
       THEN Progress(0, FALSE,
                     leftIntervals + (IF progressInterval THEN 1 ELSE 0))
       ELSE KeepProgress
    /\ UNCHANGED timers
    /\ UNCHANGED <<now, call, result>>
    /\ refusal' = NoRefusal /\ UNCHANGED <<localStorage, lookups>>

\* The 500 ms timer of a resolved handleFileUpload.  Its instance of
\* FileUpload was unmounted by the render of SET_PDF_FILE, so its local
\* setters reach nothing.
settleTimer ==
    /\ timers > 0
    /\ Commit(Dispatch(state, <<Act("SET_LOADING", FALSE)>>),
              isUploading, message, isTyping, uploads, chats)
    /\ timers' = timers - 1
    /\ KeepProgress
    /\ UNCHANGED <<now, call, result>>
    /\ refusal' = NoRefusal /\ UNCHANGED <<localStorage, lookups>>

\* What Math.random() * 20 may give, rounded down.
ProgressSteps == {0, 19}

\* One tick (200 ms) of a progress interval of the mounted FileUpload: the
\* interval of the upload in progress (own) or one a failed upload left.
progressTick(own, step) ==
    /\ FileUploadMounted(state)
    /\ IF own THEN progressInterval ELSE leftIntervals > 0
    /\ IF uploadProgress >= 90
       THEN /\ uploadProgress' = 90
            /\ progressInterval' = IF own THEN FALSE ELSE progressInterval
            /\ leftIntervals' = IF own THEN leftIntervals ELSE leftIntervals - 1
       ELSE /\ uploadProgress' = uploadProgress + step
            /\ UNCHANGED <<progressInterval, leftIntervals>>
    /\ UNCHANGED <<now, call, result, objectURLs>>
    /\ refusal' = NoRefusal /\ UNCHANGED <<localStorage, lookups>>
    /\ UNCHANGED <<state, isUploading, message, isTyping, uploads, chats, timers>>

(***************************************************************************)
(* usePDF                                                                  *)
(***************************************************************************)
\* uploadPDF's own validation: the message of the Error it throws, or null.
uploadPDFValidation(file) ==
    IF ~Truthy(file) THEN Str(<<"No file provided">>)
    ELSE IF file.type # "application/pdf" THEN ERROR_MESSAGES.INVALID_FILE_TYPE
    ELSE Null

\* usePDF.uploadPDF(file), up to its await.
uploadPDF(file) ==
    /\ LET invalid == uploadPDFValidation(file)
       IN  IF invalid # Null
           THEN /\ Commit(Dispatch(state, <<Act("SET_ERROR",
                              handleApiError([message |-> invalid],
                                             ERROR_MESSAGES.UPLOAD_FAILED))>>),
                          isUploading, message, isTyping, uploads, chats)
                /\ UNCHANGED <<now, call, result>>
                /\ refusal' = NoRefusal /\ UNCHANGED <<localStorage, lookups>>
           ELSE /\ Pending < MaxPending
                /\ Commit(Dispatch(state, <<Act("SET_LOADING", TRUE),
                                            Act("CLEAR_ERROR", Null)>>),
                          isUploading, message, isTyping,
                          Add(uploads, [via |-> "usePDF", file |-> file,
                                        live |-> TRUE]),
                          chats)
                /\ UNCHANGED <<now, call, result>>
                /\ refusal' = NoRefusal /\ UNCHANGED <<localStorage, lookups>>
    /\ UNCHANGED timers /\ KeepProgress

\* uploadPDF after apiService.uploadPDF resolved with response.
uploadPDFResolved(u, response) ==
    /\ BagIn(u, uploads)
    /\ u.via = "usePDF"
    /\ Commit(Dispatch(state, <<Act("SET_PDF_FILE", u.file),
                                Act("SET_SESSION_ID", Prop(response, "session_id")),
                                Act("SET_LOADING", FALSE)>>),
              isUploading, message, isTyping, Del(uploads, u), chats)
    /\ localStorage' = setItem(localStorage, STORAGE_KEYS.SESSION_ID,
                               Prop(response, "session_id"))
    /\ UNCHANGED timers /\ KeepProgress
    /\ UNCHANGED <<now, call, result>>
    /\ refusal' = NoRefusal /\ UNCHANGED lookups

\* uploadPDF's catch after apiService.uploadPDF was rejected.
uploadPDFRejected(u, failure) ==
    /\ BagIn(u, uploads)
    /\ u.via = "usePDF"
    /\ Commit(Dispatch(state, <<Act("SET_ERROR",
                  handleApiError(GatewayError(failure), ERROR_MESSAGES.UPLOAD_FAILED))>>),
              isUploading, message, isTyping, Del(uploads, u), chats)
    /\ UNCHANGED timers /\ KeepProgress
    /\ UNCHANGED <<now, call, result>>
    /\ refusal' = NoRefusal /\ UNCHANGED <<localStorage, lookups>>

\* usePDF.clearPDF: RESET_STATE, then both entries leave local storage.
clearPDF ==
    /\ Commit(Dispatch(state, <<Act("RESET_STATE", Null)>>),
              isUploading, message, isTyping, uploads, chats)
    /\ localStorage' = removeItem(removeItem(localStorage, STORAGE_KEYS.SESSION_ID),
                                  STORAGE_KEYS.CHAT_HISTORY)
    /\ UNCHANGED timers /\ KeepProgress
    /\ UNCHANGED <<now, call, result>>
    /\ refusal' = NoRefusal /\ UNCHANGED lookups

(***************************************************************************)
(* PDFViewer                                                               *)
(***************************************************************************)
\* The New Chat button.
newChat ==
    /\ ViewerMounted(state)
    /\ Commit(Dispatch(state, <<Act("RESET_STATE", Null)>>),
              isUploading, message, isTyping, uploads, chats)
    /\ UNCHANGED timers /\ KeepProgress
    /\ UNCHANGED <<now, call, result>>
    /\ refusal' = NoRefusal /\ UNCHANGED <<localStorage, lookups>>

(***************************************************************************)
(* ChatInterface                                                           *)
(***************************************************************************)
\* What a user may type.
Texts == {Str(<<" ">>), Str(<<" ", "h", "i", " ">>)}

\* Bodies of a 2xx answer to POST /chat.
ChatResponses ==
    {[response  |-> Str(<<"(", "P", "a", "g", "e", " ", "5", ")">>),
      citations |-> <<[page |-> 3]>>]}

\* response.citations || []: the list of the answer, or [] for an answer
\* without one.
CitationsOf(response) ==
    IF "citations" \in DOMAIN response THEN response.citations ELSE <<>>

\* The textarea's onChange; the textarea is disabled while isLoading or
\* without a session.
setMessage(text) ==
    /\ ViewerMounted(state)
    /\ ~state.isLoading /\ Truthy(state.sessionId)
    /\ message' = text
    /\ UNCHANGED <<now, call, result, objectURLs>>
    /\ refusal' = NoRefusal /\ UNCHANGED <<localStorage, lookups>>
    /\ UNCHANGED <<state, isUploading, isTyping, uploads, chats, timers,
                 uploadProgress, progressInterval, leftIntervals>>

\* Whether the bounds leave room for one more exchange.
RoomForExchange ==
    /\ Len(state.chatMessages) < MaxMsgs
    /\ Pending < MaxPending

\* The guard of handleSendMessage and of useChat.sendMessage.
sendRefused(text) ==
    ~Truthy(trim(text)) \/ ~Truthy(state.sessionId) \/ state.isLoading

\* handleSubmit / handleKeyDown -> handleSendMessage, up to its first await.
\* The textarea is disabled while isLoading or without a session.
handleSendMessage ==
    /\ ViewerMounted(state)
    /\ ~state.isLoading /\ Truthy(state.sessionId)
    /\ IF sendRefused(message)
       THEN /\ UNCHANGED <<now, call, result, objectURLs>>
            /\ refusal' = [by |-> "handleSendMessage", returned |-> Undefined]
            /\ UNCHANGED <<localStorage, lookups>>
            /\ UNCHANGED <<state, isUploading, message, isTyping, uploads, chats>>
       ELSE /\ RoomForExchange
            /\ Commit(Dispatch(state,
                        <<Act("ADD_CHAT_MESSAGE",
                              [type |-> MESSAGE_TYPES.USER, content |-> trim(message)]),
                          Act("CLEAR_ERROR", Null)>>),
                      isUploading, Str(<<>>), TRUE, uploads,
                      Add(chats, [via |-> "ChatInterface", text |-> trim(message),
                                  sessionId |-> state.sessionId,
                                  phase |-> "typing", live |-> TRUE]))
            /\ UNCHANGED <<now, call, result>>
            /\ refusal' = NoRefusal /\ UNCHANGED <<localStorage, lookups>>
    /\ UNCHANGED timers /\ KeepProgress

\* TYPING_INDICATOR_DELAY elapsed: handleSendMessage calls apiService.sendMessage.
typingDelayElapsed(c) ==
    /\ BagIn(c, chats)
    /\ c.via = "ChatInterface"
    /\ c.phase = "typing"
    /\ chats' = Add(Del(chats, c), [c EXCEPT !.phase = "sent"])
    /\ UNCHANGED <<now, call, result, objectURLs>>
    /\ refusal' = NoRefusal /\ UNCHANGED <<localStorage, lookups>>
    /\ UNCHANGED <<state, isUploading, message, isTyping, uploads, timers,
                 uploadProgress, progressInterval, leftIntervals>>

\* handleSendMessage after apiService.sendMessage resolved with response.
handleSendMessageResolved(c, response) ==
    /\ BagIn(c, chats)
    /\ c.via = "ChatInterface"
    /\ c.phase = "sent"
    /\ Commit(Dispatch(state,
                <<Act("ADD_CHAT_MESSAGE",
                      [type      |-> MESSAGE_TYPES.ASSISTANT,
                       content   |-> response.response,
                       citations |-> CitationsOf(response)
                                     \o extractCitations(response.response)])>>),
              isUploading, message, IF c.live THEN FALSE ELSE isTyping,
              uploads, Del(chats, c))
    /\ UNCHANGED timers /\ KeepProgress
    /\ UNCHANGED <<now, call, result>>
    /\ refusal' = NoRefusal /\ UNCHANGED <<localStorage, lookups>>

\* handleSendMessage's catch after apiService.sendMessage was rejected.
handleSendMessageRejected(c, failure) ==
    /\ BagIn(c, chats)
    /\ c.via = "ChatInterface"
    /\ c.phase = "sent"
    /\ Commit(Dispatch(state,
                <<Act("ADD_CHAT_MESSAGE",
                      [type    |-> MESSAGE_TYPES.ERROR,
                       content |-> handleApiError(GatewayError(failure),
                                                  ERROR_MESSAGES.CHAT_FAILED)])>>),
              isUploading, message, IF c.live THEN FALSE ELSE isTyping,
              uploads, Del(chats, c))
    /\ UNCHANGED timers /\ KeepProgress
    /\ UNCHANGED <<now, call, result>>
    /\ refusal' = NoRefusal /\ UNCHANGED <<localStorage, lookups>>

\* The Clear button, shown while the transcript is not empty.
handleClearChat ==
    /\ ViewerMounted(state)
    /\ Len(state.chatMessages) > 0
    /\ Commit(Dispatch(state, <<Act("CLEAR_CHAT", Null)>>),
              isUploading, message, isTyping, uploads, chats)
    /\ UNCHANGED timers /\ KeepProgress
    /\ UNCHANGED <<now, call, result>>
    /\ refusal' = NoRefusal /\ UNCHANGED <<localStorage, lookups>>

(***************************************************************************)
(* useChat                                                                 *)
(***************************************************************************)
\* useChat.sendMessage(text), up to its await; apiService.sendMessage is
\* called in the same turn as the dispatches.
sendMessage(text) ==
    /\ IF sendRefused(text)
       THEN /\ UNCHANGED <<now, call, result, objectURLs>>
            /\ refusal' = [by       |-> "sendMessage",
                            returned |-> [success |-> FALSE,
                                          error   |-> Str(<<"Invalid message or session">>)]]
            /\ UNCHANGED <<localStorage, lookups>>
            /\ UNCHANGED <<state, isUploading, message, isTyping, uploads, chats>>
       ELSE /\ RoomForExchange
            /\ Commit(Dispatch(state,
                        <<Act("ADD_CHAT_MESSAGE",
                              [type |-> MESSAGE_TYPES.USER, content |-> trim(text)]),
                          Act("CLEAR_ERROR", Null),
                          Act("SET_LOADING", TRUE)>>),
                      isUploading, message, isTyping, uploads,
                      Add(chats, [via |-> "useChat", text |-> trim(text),
                                  sessionId |-> state.sessionId,
                                  phase |-> "sent", live |-> TRUE]))
            /\ UNCHANGED <<now, call, result>>
            /\ refusal' = NoRefusal /\ UNCHANGED <<localStorage, lookups>>
    /\ UNCHANGED timers /\ KeepProgress

\* ADD_CITATION for each element of citations.
RECURSIVE AddCitations(_)
AddCitations(citations) ==
    IF citations = <<>> THEN <<>>
    ELSE <<Act("ADD_CITATION", Head(citations))>> \o AddCitations(Tail(citations))

\* sendMessage after apiService.sendMessage resolved with response.
sendMessageResolved(c, response) ==
    /\ BagIn(c, chats)
    /\ c.via = "useChat"
    /\ LET aiMessage == [type      |-> MESSAGE_TYPES.ASSISTANT,
                         content   |-> response.response,
                         citations |-> CitationsOf(response)]
       IN  Commit(Dispatch(state, <<Act("ADD_CHAT_MESSAGE", aiMessage),
                                    Act("SET_LOADING", FALSE)>>
                                   \o AddCitations(CitationsOf(response))),
                  isUploading, message, isTyping, uploads, Del(chats, c))
    /\ UNCHANGED timers /\ KeepProgress
    /\ UNCHANGED <<now, call, result>>
    /\ refusal' = NoRefusal /\ UNCHANGED <<localStorage, lookups>>

\* sendMessageRejected without its SET_LOADING false.
sendMessageRejected_keepsLoading(c, failure) ==
    /\ BagIn(c, chats)
    /\ c.via = "useChat"
    /\ LET errorMessage == handleApiError(GatewayError(failure),
                                          ERROR_MESSAGES.CHAT_FAILED)
       IN  Commit(Dispatch(state,
                    <<Act("ADD_CHAT_MESSAGE",
                          [type |-> MESSAGE_TYPES.ERROR, content |-> errorMessage])>>),
                  isUploading, message, isTyping, uploads, Del(chats, c))
    /\ UNCHANGED timers /\ KeepProgress
    /\ UNCHANGED <<now, call, result>>
    /\ refusal' = NoRefusal /\ UNCHANGED <<localStorage, lookups>>

\* sendMessage's catch after apiService.sendMessage was rejected.
sendMessageRejected(c, failure) ==
    /\ BagIn(c, chats)
    /\ c.via = "useChat"
    /\ LET errorMessage == handleApiError(GatewayError(failure),
                                          ERROR_MESSAGES.CHAT_FAILED)
       IN  Commit(Dispatch(state,
                    <<Act("ADD_CHAT_MESSAGE",
                          [type |-> MESSAGE_TYPES.ERROR, content |-> errorMessage]),
                      Act("SET_LOADING", FALSE)>>),
                  isUploading, message, isTyping, uploads, Del(chats, c))
    /\ UNCHANGED timers /\ KeepProgress
    /\ UNCHANGED <<now, call, result>>
    /\ refusal' = NoRefusal /\ UNCHANGED <<localStorage, lookups>>

\* useChat.clearChat.
clearChat ==
    /\ Commit(Dispatch(state, <<Act("CLEAR_CHAT", Null)>>),
              isUploading, message, isTyping, uploads, chats)
    /\ UNCHANGED timers /\ KeepProgress
    /\ UNCHANGED <<now, call, result>>
    /\ refusal' = NoRefusal /\ UNCHANGED <<localStorage, lookups>>

\* Arguments of loadChatHistory.
TargetSessionIds == {Null, Str(<<"s1">>)}

\* Bodies of a 2xx answer to GET /chat/history/:id.
HistoryResponses ==
    {[messages |-> <<[type |-> MESSAGE_TYPES.USER, content |-> Str(<<"h", "i">>)]>>],
     [messages |-> <<>>]}

\* useChat.loadChatHistory(targetSessionId), up to its await.
loadChatHistory(targetSessionId) ==
    /\ IF ~Truthy(targetSessionId)
       THEN /\ UNCHANGED <<now, call, result, objectURLs>>
            /\ refusal' = [by       |-> "loadChatHistory",
                           returned |-> [success |-> FALSE,
                                         error   |-> Str(<<"No session ID">>)]]
            /\ UNCHANGED lookups
       ELSE /\ Pending < MaxPending
            /\ lookups' = Add(lookups, [by |-> "loadChatHistory",
                                        sessionId |-> targetSessionId])
            /\ UNCHANGED <<now, call, result, objectURLs>>
            /\ refusal' = NoRefusal
    /\ UNCHANGED <<state, isUploading, message, isTyping, uploads, chats, timers,
                   uploadProgress, progressInterval, leftIntervals, localStorage>>

\* ADD_CHAT_MESSAGE for each element of messages.
RECURSIVE AddMessages(_)
AddMessages(messages) ==
    IF messages = <<>> THEN <<>>
    ELSE <<Act("ADD_CHAT_MESSAGE", Head(messages))>> \o AddMessages(Tail(messages))

\* loadChatHistory after apiService.getChatHistory resolved with response.
loadChatHistoryResolved(l, response) ==
    /\ BagIn(l, lookups)
    /\ l.by = "loadChatHistory"
    /\ Commit(IF "messages" \in DOMAIN response /\ Len(response.messages) > 0
              THEN Dispatch(state, <<Act("CLEAR_CHAT", Null)>>
                                   \o AddMessages(response.messages))
              ELSE state,
              isUploading, message, isTyping, uploads, chats)
    /\ lookups' = Del(lookups, l)
    /\ UNCHANGED <<timers, localStorage>> /\ KeepProgress
    /\ UNCHANGED <<now, call, result>>
    /\ refusal' = NoRefusal

\* loadChatHistory's catch after apiService.getChatHistory was rejected: it
\* returns {success: false, error} and dispatches nothing.
loadChatHistoryRejected(l, failure) ==
    /\ BagIn(l, lookups)
    /\ l.by = "loadChatHistory"
    /\ lookups' = Del(lookups, l)
    /\ UNCHANGED <<now, call, result, objectURLs>>
    /\ refusal' = NoRefusal
    /\ UNCHANGED <<state, isUploading, message, isTyping, uploads, chats, timers,
                   uploadProgress, progressInterval, leftIntervals, localStorage>>

\* Bodies of a 2xx answer to GET /session/:id.
SessionInfos == {[valid |-> TRUE], [valid |-> FALSE]}

\* usePDF.restoreSession(), up to its await.
restoreSession ==
    /\ LET savedSessionId == localStorage[STORAGE_KEYS.SESSION_ID]
       IN  IF Truthy(savedSessionId)
           THEN /\ Pending < MaxPending
                /\ lookups' = Add(lookups, [by |-> "restoreSession",
                                            sessionId |-> savedSessionId])
                /\ UNCHANGED <<now, call, result, objectURLs>>
                /\ refusal' = NoRefusal
           ELSE /\ UNCHANGED <<now, call, result, objectURLs>>
                /\ refusal' = [by       |-> "restoreSession",
                               returned |-> [success |-> FALSE,
                                             error   |-> Str(<<"No valid session found">>)]]
                /\ UNCHANGED lookups
    /\ UNCHANGED <<state, isUploading, message, isTyping, uploads, chats, timers,
                   uploadProgress, progressInterval, leftIntervals, localStorage>>

\* restoreSession after apiService.getSessionInfo resolved with sessionInfo.
restoreSessionResolved(l, sessionInfo) ==
    /\ BagIn(l, lookups)
    /\ l.by = "restoreSession"
    /\ IF Prop(sessionInfo, "valid") = TRUE
       THEN /\ Commit(Dispatch(state, <<Act("SET_SESSION_ID", l.sessionId)>>),
                      isUploading, message, isTyping, uploads, chats)
            /\ UNCHANGED localStorage
       ELSE /\ Commit(state, isUploading, message, isTyping, uploads, chats)
            /\ localStorage' = removeItem(removeItem(localStorage, STORAGE_KEYS.SESSION_ID),
                                          STORAGE_KEYS.CHAT_HISTORY)
    /\ lookups' = Del(lookups, l)
    /\ UNCHANGED timers /\ KeepProgress
    /\ UNCHANGED <<now, call, result>>
    /\ refusal' = NoRefusal

\* restoreSession's catch after apiService.getSessionInfo was rejected: it
\* logs a warning, returns {success: false, error} and dispatches nothing.
restoreSessionRejected(l, failure) ==
    /\ BagIn(l, lookups)
    /\ l.by = "restoreSession"
    /\ lookups' = Del(lookups, l)
    /\ UNCHANGED <<now, call, result, objectURLs>>
    /\ refusal' = NoRefusal
    /\ UNCHANGED <<state, isUploading, message, isTyping, uploads, chats, timers,
                   uploadProgress, progressInterval, leftIntervals, localStorage>>

(***************************************************************************)
(* The reducer applied directly: dispatch of the Provider's useReducer     *)
(***************************************************************************)
\* A store with every field away from its default.
LoadedState ==
    [pdfFile      |-> DocPdf,
     pdfDocument  |-> [numPages |-> 3],
     currentPage  |-> 2,
     totalPages   |-> 3,
     chatMessages |-> <<[type |-> MESSAGE_TYPES.USER, content |-> Str(<<"h", "i">>)]>>,
     isLoading    |-> TRUE,
     sessionId    |-> Str(<<"s1">>),
     error        |-> Str(<<"e">>),
     citations    |-> <<[page |-> 3]>>]

\* The stores the reducer is first applied to.
StoreStates == {initialState, LoadedState}

\* Payloads of the actions dispatched directly.
MessagePayloads ==
    {[type |-> MESSAGE_TYPES.USER, content |-> Str(<<"h", "i">>)],
     [type |-> MESSAGE_TYPES.ERROR, content |-> Str(<<"e">>)]}

ValuePayloads == {Null, Str(<<"s1">>)}

\* Action types with one payload kind each; "PING" is no action type.
ValueTypes == {"SET_SESSION_ID", "SET_ERROR", "CLEAR_ERROR", "CLEAR_CHAT",
               "RESET_STATE", "PING"}

\* dispatch(action) of useReducer(appReducer, initialState): the store becomes
\* what the reducer returns for the current store and the action.
dispatch(action) ==
    /\ action.type = "ADD_CHAT_MESSAGE" => Len(state.chatMessages) < MaxMsgs
    /\ action.type = "ADD_CITATION" => Len(state.citations) < MaxMsgs
    /\ state' = appReducer(state, action)
    /\ call' = [fn |-> "appReducer", args |-> <<state, action>>]
    /\ result' = appReducer(state, action)
    /\ UNCHANGED <<isUploading, uploadProgress, progressInterval, leftIntervals,
                   message, isTyping, uploads, chats, timers, lookups,
                   localStorage, refusal, objectURLs, now>>

InitReducer ==
    /\ state \in StoreStates
    /\ isUploading = FALSE
    /\ uploadProgress = 0
    /\ progressInterval = FALSE
    /\ leftIntervals = 0
    /\ message = Str(<<>>)
    /\ isTyping = FALSE
    /\ uploads = EmptyBag
    /\ chats = EmptyBag
    /\ timers = 0
    /\ lookups = EmptyBag
    /\ localStorage = [k \in STORAGE_KEYS_USED |-> Null]
    /\ refusal = NoRefusal
    /\ call = NoCall
    /\ result = Undefined
    /\ objectURLs = EmptyBag
    /\ now = 0

NextReducer ==
    \/ \E file \in {Null, DocPdf} : dispatch(Act("SET_PDF_FILE", file))
    \/ \E doc \in {Null, [numPages |-> 3]} : dispatch(Act("SET_PDF_DOCUMENT", doc))
    \/ \E page \in {1, 2} : dispatch(Act("SET_CURRENT_PAGE", page))
    \/ \E pages \in {0, 3} : dispatch(Act("SET_TOTAL_PAGES", pages))
    \/ \E m \in MessagePayloads : dispatch(Act("ADD_CHAT_MESSAGE", m))
    \/ \E loading \in BOOLEAN : dispatch(Act("SET_LOADING", loading))
    \/ dispatch(Act("ADD_CITATION", [page |-> 3]))
    \/ \E type \in ValueTypes, payload \in ValuePayloads : dispatch(Act(type, payload))

(***************************************************************************)
(* extractCitations applied directly to a reply text                       *)
(***************************************************************************)
\* The longest reply text, in pieces.
MaxPieces == 3

\* What reply texts are made of.
Pieces ==
    {<<"S", "e", "e", " ">>,
     <<"(", "P", "a", "g", "e", " ", "5", ")">>,
     <<" ", "a", "n", "d", " ", "(", "p", "a", "g", "e", " ", "1", "2", ")">>,
     <<"(", "P", "a", "g", "e", " ", " ", "5", ")">>,
     <<"(", "P", "a", "g", "e", "5", ")">>,
     <<"(", "P", "A", "G", "E", "\n", "7", ")">>,
     <<"P", "a", "g", "e", " ", "3">>}

\* The character sequences of at most n pieces.
RECURSIVE TextsOf(_)
TextsOf(n) ==
    IF n = 0 THEN {<<>>}
    ELSE TextsOf(n - 1) \cup {cs \o piece : cs \in TextsOf(n - 1), piece \in Pieces}

ReplyTexts == {Str(cs) : cs \in TextsOf(MaxPieces)}

\* A reply text has been handed to extractCitations, which has yet to return.
InitCitations ==
    /\ state = initialState
    /\ isUploading = FALSE
    /\ uploadProgress = 0
    /\ progressInterval = FALSE
    /\ leftIntervals = 0
    /\ message = Str(<<>>)
    /\ isTyping = FALSE
    /\ uploads = EmptyBag
    /\ chats = EmptyBag
    /\ timers = 0
    /\ lookups = EmptyBag
    /\ localStorage = [k \in STORAGE_KEYS_USED |-> Null]
    /\ refusal = NoRefusal
    /\ call \in {[fn |-> "extractCitations", args |-> <<text>>, returned |-> FALSE] :
                    text \in ReplyTexts}
    /\ result = Undefined
    /\ objectURLs = EmptyBag
    /\ now = 0

\* extractCitations(text) returns.
extractCitationsReturns ==
    /\ call.fn = "extractCitations" /\ ~call.returned
    /\ call' = [call EXCEPT !.returned = TRUE]
    /\ result' = extractCitations(call.args[1])
    /\ UNCHANGED <<state, isUploading, uploadProgress, progressInterval,
                   leftIntervals, message, isTyping, uploads, chats, timers,
                   lookups, localStorage, refusal, objectURLs, now>>

NextCitations == extractCitationsReturns

(***************************************************************************)
(* ChatInterface's renderMessage: the citation chips of a message          *)
(***************************************************************************)
\* The most citations a rendered message has stored.
MaxCitations == 3

\* Citations as the backend sends them and as extractCitations makes them.
StoredCitations ==
    {[page |-> 3], [page |-> 7]}
    \cup {[page |-> n, text |-> Str(<<"P", "a", "g", "e", " ", d>>),
           confidence |-> "0.9", type |-> "page_reference"] :
             <<n, d>> \in {<<3, "3">>, <<7, "7">>}}

RECURSIVE CitationLists(_)
CitationLists(n) ==
    IF n = 0 THEN {<<>>}
    ELSE CitationLists(n - 1)
         \cup {Append(cs, c) : cs \in CitationLists(n - 1), c \in StoredCitations}

\* Map.prototype.set with the first value stored under a key kept.
MapSet_keepsFirst(map, key, value) ==
    IF \E i \in 1..Len(map) : map[i].key = key
    THEN map
    ELSE Append(map, [key |-> key, value |-> value])

\* Map.prototype.set on a map given as its entries in insertion order: the
\* value under a key already there is replaced where it is, a new key comes
\* last.
MapSet(map, key, value) ==
    IF \E i \in 1..Len(map) : map[i].key = key
    THEN [i \in 1..Len(map) |->
            IF map[i].key = key THEN [key |-> key, value |-> value] ELSE map[i]]
    ELSE Append(map, [key |-> key, value |-> value])

\* new Map(entries)
RECURSIVE NewMap(_)
NewMap(entries) ==
    IF entries = <<>> THEN <<>>
    ELSE LET entry == entries[Len(entries)]
         IN  MapSet(NewMap(SubSeq(entries, 1, Len(entries) - 1)), entry[1], entry[2])

\* Array.from(map.values())
MapValues(map) == [i \in 1..Len(map) |-> map[i].value]

\* c.page as a key of the Map: the number, or undefined for a citation
\* without a page.
PageKey(c) == IF "page" \in DOMAIN c THEN [number |-> c.page] ELSE Undefined

\* The citations renderMessage(msg) makes a CitationLink of, in order.
renderMessage(msg) ==
    IF "citations" \in DOMAIN msg /\ Len(msg.citations) > 0
    THEN MapValues(NewMap([i \in 1..Len(msg.citations) |->
                              <<PageKey(msg.citations[i]), msg.citations[i]>>]))
    ELSE <<>>

\* A reply stored with the citations cs.
Reply(cs) ==
    [type |-> MESSAGE_TYPES.ASSISTANT, content |-> Str(<<"o", "k">>), citations |-> cs]

\* The store holds one reply, which ChatInterface is about to render.
InitRender ==
    /\ \E cs \in CitationLists(MaxCitations) :
          /\ state = [initialState EXCEPT !.chatMessages = <<Reply(cs)>>]
          /\ call = [fn |-> "renderMessage", args |-> <<Reply(cs)>>, returned |-> FALSE]
    /\ isUploading = FALSE
    /\ uploadProgress = 0
    /\ progressInterval = FALSE
    /\ leftIntervals = 0
    /\ message = Str(<<>>)
    /\ isTyping = FALSE
    /\ uploads = EmptyBag
    /\ chats = EmptyBag
    /\ timers = 0
    /\ lookups = EmptyBag
    /\ localStorage = [k \in STORAGE_KEYS_USED |-> Null]
    /\ refusal = NoRefusal
    /\ result = Undefined
    /\ objectURLs = EmptyBag
    /\ now = 0

\* chatMessages.map(renderMessage) for the reply: rendering dispatches
\* nothing and changes no object of the store.
renderMessageReturns ==
    /\ call.fn = "renderMessage" /\ ~call.returned
    /\ call' = [call EXCEPT !.returned = TRUE]
    /\ result' = renderMessage(call.args[1])
    /\ UNCHANGED <<state, isUploading, uploadProgress, progressInterval,
                   leftIntervals, message, isTyping, uploads, chats, timers,
                   lookups, localStorage, refusal, objectURLs, now>>

NextRender == renderMessageReturns

\* Citations as the backend may send them: of a page, of a section only, of
\* neither.
SectionedCitations ==
    {[page |-> 3],
     [section |-> Str(<<"I", "n", "t", "r", "o">>)],
     [section |-> Str(<<"M", "e", "t", "h", "o", "d", "s">>)],
     [text |-> Str(<<"s", "e", "e">>)]}

RECURSIVE SectionedLists(_)
SectionedLists(n) ==
    IF n = 0 THEN {<<>>}
    ELSE SectionedLists(n - 1)
         \cup {Append(cs, c) : cs \in SectionedLists(n - 1), c \in SectionedCitations}

\* The store holds one reply whose citations may lack a page, which
\* ChatInterface is about to render.
InitRenderSections ==
    /\ \E cs \in SectionedLists(MaxCitations) :
          /\ state = [initialState EXCEPT !.chatMessages = <<Reply(cs)>>]
          /\ call = [fn |-> "renderMessage", args |-> <<Reply(cs)>>, returned |-> FALSE]
    /\ isUploading = FALSE
    /\ uploadProgress = 0
    /\ progressInterval = FALSE
    /\ leftIntervals = 0
    /\ message = Str(<<>>)
    /\ isTyping = FALSE
    /\ uploads = EmptyBag
    /\ chats = EmptyBag
    /\ timers = 0
    /\ lookups = EmptyBag
    /\ localStorage = [k \in STORAGE_KEYS_USED |-> Null]
    /\ refusal = NoRefusal
    /\ result = Undefined
    /\ objectURLs = EmptyBag
    /\ now = 0

(***************************************************************************)
(* Page navigation: usePDF's navigation operations and CitationLink        *)
(***************************************************************************)
\* The pages of the loaded document.
MaxPages == 3

\* The stores navigation starts from: a document of MaxPages pages or one
\* whose page count was never set, the current page within the document.
NavigableStates ==
    {[LoadedState EXCEPT !.totalPages = total, !.currentPage = page,
                         !.isLoading = FALSE, !.error = Null] :
        <<total, page>> \in {<<0, 1>>} \cup ({MaxPages} \X (1..MaxPages))}

\* The citations of the chips that are clicked: with a page inside the
\* document, with a page beyond it, with page 0 as extractCitations makes
\* of "(Page 0)", with a section only, with neither.
ClickedCitations ==
    {[page |-> 2], [page |-> MaxPages + 4],
     [page |-> 0, text |-> Str(<<"P", "a", "g", "e", " ", "0">>),
      confidence |-> "0.9", type |-> "page_reference"],
     [section |-> Str(<<"I", "n", "t", "r", "o">>)],
     [text |-> Str(<<"n", "o", "t", "e">>)]}

\* if (citation.page): the property is there and is not 0.
PageIsTruthy(citation) == "page" \in DOMAIN citation /\ citation.page # 0

\* A navigation operation op(args) that dispatches the actions and returns
\* returned; what it did is kept in call and result.
Navigate(op, args, actions, returned) ==
    /\ state' = Dispatch(state, actions)
    /\ call' = [fn |-> op, args |-> args, state |-> state, returned |-> TRUE]
    /\ result' = returned
    /\ UNCHANGED <<isUploading, uploadProgress, progressInterval, leftIntervals,
                   message, isTyping, uploads, chats, timers, lookups,
                   localStorage, refusal, objectURLs, now>>

\* usePDF.goToPage(pageNumber)
goToPage(pageNumber) ==
    IF pageNumber >= 1 /\ pageNumber <= state.totalPages
    THEN Navigate("goToPage", <<pageNumber>>,
                  <<Act("SET_CURRENT_PAGE", pageNumber)>>, TRUE)
    ELSE Navigate("goToPage", <<pageNumber>>, <<>>, FALSE)

\* usePDF.nextPage()
nextPage ==
    IF state.currentPage < state.totalPages
    THEN Navigate("nextPage", <<>>,
                  <<Act("SET_CURRENT_PAGE", state.currentPage + 1)>>, TRUE)
    ELSE Navigate("nextPage", <<>>, <<>>, FALSE)

\* usePDF.prevPage()
prevPage ==
    IF state.currentPage > 1
    THEN Navigate("prevPage", <<>>,
                  <<Act("SET_CURRENT_PAGE", state.currentPage - 1)>>, TRUE)
    ELSE Navigate("prevPage", <<>>, <<>>, FALSE)

\* usePDF.firstPage()
firstPage ==
    IF state.totalPages > 0
    THEN Navigate("firstPage", <<>>, <<Act("SET_CURRENT_PAGE", 1)>>, TRUE)
    ELSE Navigate("firstPage", <<>>, <<>>, FALSE)

\* usePDF.lastPage()
lastPage ==
    IF state.totalPages > 0
    THEN Navigate("lastPage", <<>>,
                  <<Act("SET_CURRENT_PAGE", state.totalPages)>>, TRUE)
    ELSE Navigate("lastPage", <<>>, <<>>, FALSE)

\* CitationLink's handleCitationClick with dispatch and window.dispatchEvent
\* called in the opposite order.
handleCitationClick_eventFirst(citation) ==
    IF PageIsTruthy(citation)
    THEN Navigate("handleCitationClick", <<citation>>,
                  <<Act("SET_CURRENT_PAGE", citation.page)>>,
                  <<[fn |-> "window.dispatchEvent", type |-> "navigateToPage",
                     detail |-> [page |-> citation.page]],
                    [fn |-> "dispatch",
                     action |-> Act("SET_CURRENT_PAGE", citation.page)]>>)
    ELSE Navigate("handleCitationClick", <<citation>>, <<>>, <<>>)

\* CitationLink's handleCitationClick for the chip of citation; its result is
\* the calls it made on the store and the window, in order.
handleCitationClick(citation) ==
    IF PageIsTruthy(citation)
    THEN Navigate("handleCitationClick", <<citation>>,
                  <<Act("SET_CURRENT_PAGE", citation.page)>>,
                  <<[fn |-> "dispatch",
                     action |-> Act("SET_CURRENT_PAGE", citation.page)],
                    [fn |-> "window.dispatchEvent", type |-> "navigateToPage",
                     detail |-> [page |-> citation.page]]>>)
    ELSE Navigate("handleCitationClick", <<citation>>, <<>>, <<>>)

InitNavigate ==
    /\ state \in NavigableStates
    /\ isUploading = FALSE
    /\ uploadProgress = 0
    /\ progressInterval = FALSE
    /\ leftIntervals = 0
    /\ message = Str(<<>>)
    /\ isTyping = FALSE
    /\ uploads = EmptyBag
    /\ chats = EmptyBag
    /\ timers = 0
    /\ lookups = EmptyBag
    /\ localStorage = [k \in STORAGE_KEYS_USED |-> Null]
    /\ refusal = NoRefusal
    /\ call = NoCall
    /\ result = Undefined
    /\ objectURLs = EmptyBag
    /\ now = 0

NextNavigate ==
    \/ \E pageNumber \in 0..(MaxPages + 1) : goToPage(pageNumber)
    \/ nextPage
    \/ prevPage
    \/ firstPage
    \/ lastPage
    \/ \E citation \in ClickedCitations : handleCitationClick(citation)

(***************************************************************************)
(* services/api: a rejected call, from the interceptor to the caller       *)
(***************************************************************************)
\* Bodies of error responses.
ErrorBodies ==
    {Null,
     [other |-> Str(<<"x">>)],
     [detail |-> Str(<<"bad pdf">>)],
     [message |-> Str(<<"try later">>)],
     [detail |-> Str(<<>>), message |-> Str(<<"try later">>)],
     [detail |-> Str(<<"bad pdf">>), message |-> Str(<<"try later">>)]}

\* Statuses of error responses: those the interceptor has a case for and two
\* it has none for.
ErrorStatuses == {400, 401, 403, 404, 429, 500, 422, 503}

\* The ways a gateway call is rejected.
GatewayFailures ==
    {HttpFailure(status, data) : status \in ErrorStatuses, data \in ErrorBodies}
    \cup {NoResponse}
    \cup {SetupFailure(m) : m \in {Str(<<>>), Str(<<"Network Error">>)}}

\* The default messages the callers hand to handleApiError.
DefaultMessages ==
    {ERROR_MESSAGES.UPLOAD_FAILED, ERROR_MESSAGES.CHAT_FAILED,
     Str(<<"Failed to load chat history">>)}

\* A gateway call has been rejected; its caller's catch has yet to run.
InitGateway ==
    /\ state = initialState
    /\ isUploading = FALSE
    /\ uploadProgress = 0
    /\ progressInterval = FALSE
    /\ leftIntervals = 0
    /\ message = Str(<<>>)
    /\ isTyping = FALSE
    /\ uploads = EmptyBag
    /\ chats = EmptyBag
    /\ timers = 0
    /\ lookups = EmptyBag
    /\ localStorage = [k \in STORAGE_KEYS_USED |-> Null]
    /\ refusal = NoRefusal
    /\ call \in {[fn |-> "handleApiError", args |-> <<failure, defaultMessage>>,
                  returned |-> FALSE] :
                    failure \in GatewayFailures, defaultMessage \in DefaultMessages}
    /\ result = Undefined
    /\ objectURLs = EmptyBag
    /\ now = 0

\* The interceptor throws its Error and the caller's catch calls
\* handleApiError(error, defaultMessage).
handleApiErrorReturns ==
    /\ call.fn = "handleApiError" /\ ~call.returned
    /\ call' = [call EXCEPT !.returned = TRUE]
    /\ result' = handleApiError(GatewayError(call.args[1]), call.args[2])
    /\ UNCHANGED <<state, isUploading, uploadProgress, progressInterval,
                   leftIntervals, message, isTyping, uploads, chats, timers,
                   lookups, localStorage, refusal, objectURLs, now>>

NextGateway == handleApiErrorReturns

(***************************************************************************)
(* Message ids: Date.now() in the send handlers                            *)
(***************************************************************************)
\* The last millisecond of the clock.
MaxNow == 3

\* The longest transcript of stamped messages.
MaxTranscript == 3

\* A store with a document and a session, before the first message.
ChatReady ==
    [initialState EXCEPT !.pdfFile = DocPdf, !.sessionId = Str(<<"s1">>)]

\* A millisecond passes.
tick ==
    /\ now < MaxNow
    /\ now' = now + 1
    /\ UNCHANGED <<state, isUploading, uploadProgress, progressInterval,
                   leftIntervals, message, isTyping, uploads, chats, timers,
                   lookups, localStorage, refusal, call, result, objectURLs>>

\* A handler's step on the transcript and the sends in flight.
Stamped(newState, newChats) ==
    /\ state' = newState
    /\ chats' = newChats
    /\ UNCHANGED <<isUploading, uploadProgress, progressInterval, leftIntervals,
                   message, isTyping, uploads, timers, lookups, localStorage,
                   refusal, call, result, objectURLs, now>>

\* No user message was sent in the current millisecond: the text of a send
\* is typed after the send before it, which takes longer.
NothingSentNow ==
    \A i \in 1..Len(state.chatMessages) :
        state.chatMessages[i].type = MESSAGE_TYPES.USER => state.chatMessages[i].id < now

\* handleSendMessage (ChatInterface) or sendMessage (useChat) up to its first
\* await, for a text that is not blank: the user message has id Date.now();
\* only useChat sets isLoading.
userMessageSent(via) ==
    /\ Truthy(state.sessionId) /\ ~state.isLoading
    /\ NothingSentNow
    /\ Len(state.chatMessages) < MaxTranscript
    /\ Stamped(Dispatch(state,
                 <<Act("ADD_CHAT_MESSAGE",
                       [id |-> now, type |-> MESSAGE_TYPES.USER,
                        content |-> Str(<<"h", "i">>)]),
                   Act("CLEAR_ERROR", Null)>>
                 \o (IF via = "useChat" THEN <<Act("SET_LOADING", TRUE)>> ELSE <<>>)),
               Add(chats, [via |-> via, sentAt |-> now]))

\* The same handlers after apiService.sendMessage settled: the assistant
\* message, or the error message of the catch, has id Date.now() + 1.
\* ChatInterface awaits TYPING_INDICATOR_DELAY before it calls the gateway,
\* so its reply comes in a later millisecond than its send.
replyAdded(c, type) ==
    /\ BagIn(c, chats)
    /\ c.via = "ChatInterface" => now > c.sentAt
    /\ Len(state.chatMessages) < MaxTranscript
    /\ Stamped(Dispatch(state,
                 <<Act("ADD_CHAT_MESSAGE",
                       [id |-> now + 1, type |-> type,
                        content |-> IF type = MESSAGE_TYPES.ERROR
                                    THEN handleApiError(GatewayError(NoResponse),
                                                        ERROR_MESSAGES.CHAT_FAILED)
                                    ELSE Str(<<"o", "k">>)])>>
                 \o (IF c.via = "useChat" THEN <<Act("SET_LOADING", FALSE)>> ELSE <<>>)),
               Del(chats, c))

InitIds ==
    /\ state = ChatReady
    /\ isUploading = FALSE
    /\ uploadProgress = 0
    /\ progressInterval = FALSE
    /\ leftIntervals = 0
    /\ message = Str(<<>>)
    /\ isTyping = FALSE
    /\ uploads = EmptyBag
    /\ chats = EmptyBag
    /\ timers = 0
    /\ lookups = EmptyBag
    /\ localStorage = [k \in STORAGE_KEYS_USED |-> Null]
    /\ refusal = NoRefusal
    /\ call = NoCall
    /\ result = Undefined
    /\ objectURLs = SetToBag({[of |-> DocPdf]})
    /\ now = 0

NextIds ==
    \/ tick
    \/ \E via \in {"ChatInterface", "useChat"} : userMessageSent(via)
    \/ \E c \in BagToSet(chats), type \in {MESSAGE_TYPES.ASSISTANT, MESSAGE_TYPES.ERROR} :
          replyAdded(c, type)

(***************************************************************************)
(* usePDF: uploads against session restoration                             *)
(***************************************************************************)
\* Bodies of a 2xx answer to POST /upload: the backend gives every upload
\* a session id of its own.
FreshUploadResponses ==
    {[session_id |-> Str(<<"s1">>), message |-> "ok"],
     [session_id |-> Str(<<"s2">>), message |-> "ok"]}

\* usePDF alone: uploadPDF, clearPDF and restoreSession, each with its
\* continuation.
NextRestore ==
    \/ \E file \in HookFiles : uploadPDF(file)
    \/ \E u \in BagToSet(uploads), response \in FreshUploadResponses :
          uploadPDFResolved(u, response)
    \/ clearPDF
    \/ restoreSession
    \/ \E l \in BagToSet(lookups), sessionInfo \in SessionInfos :
          restoreSessionResolved(l, sessionInfo)
    \/ \E l \in BagToSet(lookups), failure \in Failures :
          restoreSessionRejected(l, failure)

(***************************************************************************)
(* The system                                                              *)
(***************************************************************************)
Next ==
    \/ \E file \in PickedFiles : handleFileUpload(file)
    \/ \E u \in BagToSet(uploads), response \in UploadResponses :
          handleFileUploadResolved(u, response)
    \/ \E u \in BagToSet(uploads), failure \in Failures :
          handleFileUploadRejected(u, failure)
    \/ settleTimer
    \/ \E own \in BOOLEAN, step \in ProgressSteps : progressTick(own, step)
    \/ \E file \in HookFiles : uploadPDF(file)
    \/ \E u \in BagToSet(uploads), response \in UploadResponses :
          uploadPDFResolved(u, response)
    \/ \E u \in BagToSet(uploads), failure \in Failures : uploadPDFRejected(u, failure)
    \/ newChat
    \/ \E text \in Texts : setMessage(text)
    \/ handleSendMessage
    \/ \E c \in BagToSet(chats) : typingDelayElapsed(c)
    \/ \E c \in BagToSet(chats), response \in ChatResponses :
          handleSendMessageResolved(c, response)
    \/ \E c \in BagToSet(chats), failure \in Failures :
          handleSendMessageRejected(c, failure)
    \/ handleClearChat
    \/ \E text \in Texts : sendMessage(text)
    \/ \E c \in BagToSet(chats), response \in ChatResponses :
          sendMessageResolved(c, response)
    \/ \E c \in BagToSet(chats), failure \in Failures : sendMessageRejected(c, failure)
    \/ clearChat

\* The hooks alone: uploads and sends through usePDF and useChat, with the
\* session and history lookups.
NextSession ==
    \/ \E file \in HookFiles : uploadPDF(file)
    \/ \E u \in BagToSet(uploads), response \in UploadResponses :
          uploadPDFResolved(u, response)
    \/ \E u \in BagToSet(uploads), failure \in Failures : uploadPDFRejected(u, failure)
    \/ \E text \in Texts : sendMessage(text)
    \/ \E c \in BagToSet(chats), response \in ChatResponses :
          sendMessageResolved(c, response)
    \/ \E c \in BagToSet(chats), failure \in Failures : sendMessageRejected(c, failure)
    \/ clearChat
    \/ clearPDF
    \/ \E targetSessionId \in TargetSessionIds : loadChatHistory(targetSessionId)
    \/ \E l \in BagToSet(lookups), response \in HistoryResponses :
          loadChatHistoryResolved(l, response)
    \/ \E l \in BagToSet(lookups), failure \in Failures :
          loadChatHistoryRejected(l, failure)
    \/ restoreSession
    \/ \E l \in BagToSet(lookups), sessionInfo \in SessionInfos :
          restoreSessionResolved(l, sessionInfo)
    \/ \E l \in BagToSet(lookups), failure \in Failures :
          restoreSessionRejected(l, failure)

Spec == Init /\ [][Next]_vars

SpecSession == Init /\ [][NextSession]_vars

SpecReducer == InitReducer /\ [][NextReducer]_vars

SpecCitations == InitCitations /\ [][NextCitations]_vars

SpecRender == InitRender /\ [][NextRender]_vars

SpecRenderSections == InitRenderSections /\ [][NextRender]_vars

SpecRestore == Init /\ [][NextRestore]_vars

SpecIds == InitIds /\ [][NextIds]_vars

SpecGateway == InitGateway /\ [][NextGateway]_vars

SpecNavigate == InitNavigate /\ [][NextNavigate]_vars

\* The timer of setTimeout fires once its delay has passed.
SpecLive == Spec /\ WF_vars(settleTimer)

(***************************************************************************)
(* Requests in flight                                                      *)
(***************************************************************************)
\* The Gateway calls issued and not yet settled.
OutstandingUploads == BagCardinality(uploads)

SentChats == [c \in {d \in BagToSet(chats) : d.phase = "sent"} |-> CopiesIn(c, chats)]

OutstandingChats == BagCardinality(SentChats)

(***************************************************************************)
(* Store invariants                                                        *)
(***************************************************************************)
\* C1: in every reachable state of the store, whatever the interleaving of
\* uploads, chat sends, viewer load failures, clears and resets, isLoading
\* is not true while error is non-null.
C1_NeverLoadingWithError == ~(state.isLoading /\ state.error # Null)

\* An error is shown while an upload call is still outstanding.
C1_ErrorDuringUpload == state.error # Null /\ OutstandingUploads > 0

\* C2: at no time are two chat requests or two upload requests outstanding
\* at once.
C2_OneRequestPerKind == OutstandingChats <= 1 /\ OutstandingUploads <= 1

\* C3: whenever a Gateway upload call or send-message call is outstanding,
\* isLoading is true in the store.
C3_LoadingWhileOutstanding ==
    (OutstandingChats > 0 \/ OutstandingUploads > 0) => state.isLoading

(***************************************************************************)
(* Upload validation                                                       *)
(***************************************************************************)
Oversized(file) == file.size > MAX_FILE_SIZE

WrongType(file) == file.type # "application/pdf"

\* C4: no upload entry point issues the Gateway upload call for a file
\* larger than MAX_FILE_SIZE or of a MIME type other than application/pdf;
\* such a file is rejected with the file-too-large message when oversized
\* and with the invalid-file-type message for a wrong type.
C4_InvalidFileNeverUploaded ==
    [][\A file \in PickedFiles \cup HookFiles :
          /\ Oversized(file) \/ WrongType(file)
          /\ handleFileUpload(file) \/ uploadPDF(file)
          => /\ uploads' = uploads
             /\ state'.error = IF Oversized(file)
                               THEN ERROR_MESSAGES.FILE_TOO_LARGE
                               ELSE ERROR_MESSAGES.INVALID_FILE_TYPE]_vars

(***************************************************************************)
(* Chat sends                                                              *)
(***************************************************************************)
Blank(text) == ~Truthy(trim(text))

ReportsFailure(returned) == "success" \in DOMAIN returned /\ returned.success = FALSE

\* C5: a chat send invoked while sessionId is unset, or with empty or
\* whitespace-only text, is a no-op: it reports failure, issues no Gateway
\* call and leaves every field of the store unchanged.
C5_RefusedSendIsNoOp ==
    [][/\ handleSendMessage /\ (Blank(message) \/ ~Truthy(state.sessionId))
          => /\ state' = state /\ chats' = chats
             /\ ReportsFailure(refusal'.returned)
       /\ \A text \in Texts :
             sendMessage(text) /\ (Blank(text) \/ ~Truthy(state.sessionId))
             => /\ state' = state /\ chats' = chats
                /\ ReportsFailure(refusal'.returned)]_vars

LastMessage(s) == s.chatMessages[Len(s.chatMessages)]

\* C6: every assistant message a chat send appends, from ChatInterface and
\* from useChat alike, stores as its citations the backend's list followed
\* by the citations extracted from the reply text, in that order and without
\* deduplication.
C6_StoredCitationsAreMerged ==
    [][\A c \in BagToSet(chats), response \in ChatResponses :
          handleSendMessageResolved(c, response) \/ sendMessageResolved(c, response)
          => /\ LastMessage(state').type = MESSAGE_TYPES.ASSISTANT
             /\ LastMessage(state').citations =
                    CitationsOf(response) \o extractCitations(response.response)]_vars

\* A chat send accepted in this step, with the text it sends.
SendAccepted(text) ==
    /\ refusal' = NoRefusal
    /\ \/ handleSendMessage /\ text = message
       \/ sendMessage(text)

\* A chat exchange settled in this step with a message of the given type.
ExchangeSettled(type) ==
    \E c \in BagToSet(chats) :
        \/ /\ type = MESSAGE_TYPES.ASSISTANT
           /\ \E response \in ChatResponses :
                 handleSendMessageResolved(c, response) \/ sendMessageResolved(c, response)
        \/ /\ type = MESSAGE_TYPES.ERROR
           /\ \E failure \in Failures :
                 handleSendMessageRejected(c, failure) \/ sendMessageRejected(c, failure)

\* C7: for every accepted chat send the user message is appended before the
\* Gateway call is issued; once the call settles exactly one further message
\* (assistant on success, error on failure) is appended; and when the
\* exchange is finished isLoading is false.
C7_ExchangeOrderAndIdle ==
    [][/\ \A text \in Texts :
             SendAccepted(text)
             => state'.chatMessages =
                    Append(state.chatMessages,
                           [type |-> MESSAGE_TYPES.USER, content |-> trim(text)])
       /\ \A type \in {MESSAGE_TYPES.ASSISTANT, MESSAGE_TYPES.ERROR} :
             ExchangeSettled(type)
             => /\ Len(state'.chatMessages) = Len(state.chatMessages) + 1
                /\ SubSeq(state'.chatMessages, 1, Len(state.chatMessages))
                       = state.chatMessages
                /\ LastMessage(state').type = type
                /\ ~state'.isLoading]_vars

\* C8: when the Gateway send-message call fails, the transcript as it was is
\* kept as a prefix, one error-typed message carrying the normalized message
\* is appended, the typing state is exited, and a send with a valid session
\* is accepted again (as soon as no other request holds isLoading).
C8_ChatFailureIsAdditive ==
    [][\A c \in BagToSet(chats), failure \in Failures :
          handleSendMessageRejected(c, failure) \/ sendMessageRejected(c, failure)
          => /\ state'.chatMessages =
                    Append(state.chatMessages,
                           [type    |-> MESSAGE_TYPES.ERROR,
                            content |-> interceptorMessage(failure)])
             /\ c.via = "ChatInterface" /\ c.live => ~isTyping'
             /\ state'.sessionId = state.sessionId
             /\ IF c.via = "useChat" THEN ~state'.isLoading
                ELSE state'.isLoading = state.isLoading
             /\ Truthy(state'.sessionId) /\ ~state'.isLoading
                => \E text \in Texts : ~Blank(text) /\ ~sendRefused(text)']_vars

\* A failed exchange stays in the transcript (user message, then the error
\* message) and the store is idle with a session, so the next send is taken.
C8_FailedExchangeKept ==
    /\ Len(state.chatMessages) = 2
    /\ state.chatMessages[1].type = MESSAGE_TYPES.USER
    /\ state.chatMessages[2].type = MESSAGE_TYPES.ERROR
    /\ ~isTyping /\ ~state.isLoading /\ Truthy(state.sessionId)
    /\ chats = EmptyBag

(***************************************************************************)
(* Upload outcomes                                                         *)
(***************************************************************************)
\* The outcome of an upload attempt for file: both fields committed, with a
\* session id the backend returned, or both as they were.
AllOrNothing(file, response) ==
    \/ /\ state'.pdfFile = file
       /\ Truthy(state'.sessionId)
       /\ state'.sessionId = Prop(response, "session_id")
    \/ /\ state'.pdfFile = state.pdfFile
       /\ state'.sessionId = state.sessionId

\* C9: uploads are all-or-nothing: after an upload attempt has settled,
\* either pdfFile is the uploaded file and sessionId the session id the
\* backend returned for it, or both have the values they had before; no
\* outcome (validation failure, rejection, a response without a usable
\* session id) leaves one updated and the other not.
C9_UploadAllOrNothing ==
    [][/\ \A file \in PickedFiles \cup HookFiles :
             handleFileUpload(file) \/ uploadPDF(file) => AllOrNothing(file, Null)
       /\ \A u \in BagToSet(uploads) :
             /\ \A response \in UploadResponses :
                   handleFileUploadResolved(u, response) \/ uploadPDFResolved(u, response)
                   => AllOrNothing(u.file, response)
             /\ \A failure \in Failures :
                   handleFileUploadRejected(u, failure) \/ uploadPDFRejected(u, failure)
                   => AllOrNothing(u.file, Null)]_vars

\* C10: for a valid file whose Gateway upload resolves, handleFileUpload
\* starts with isLoading true and error null, commits SET_PDF_FILE with the
\* local file and SET_SESSION_ID with the response's session_id without
\* touching error, and after the settle delay its timer sets isLoading
\* false, again without touching error: isLoading false is eventually
\* reached.
C10_UploadCommitsAndSettles ==
    /\ [][/\ \A file \in PickedFiles :
                handleFileUpload(file) /\ validateFile(file) = Null
                => state'.isLoading /\ state'.error = Null
          /\ \A u \in BagToSet(uploads), response \in UploadResponses :
                handleFileUploadResolved(u, response)
                => /\ state'.pdfFile = u.file
                   /\ state'.sessionId = Prop(response, "session_id")
                   /\ state'.error = state.error
                   /\ timers' > 0
          /\ settleTimer => ~state'.isLoading /\ state'.error = state.error]_vars
    /\ (timers > 0 ~> ~state.isLoading)

\* handleFileUpload has run to its end for doc.pdf: the file and the
\* backend's session id are in the store, no error, isLoading false again.
C10_UploadSettled ==
    /\ state.pdfFile = DocPdf
    /\ state.sessionId = Str(<<"s1">>)
    /\ state.error = Null
    /\ ~state.isLoading
    /\ timers = 0 /\ uploads = EmptyBag

(***************************************************************************)
(* Upload progress                                                         *)
(***************************************************************************)
\* An upload started by the mounted FileUpload has not settled.
UnsettledFileUpload ==
    \E u \in BagToSet(uploads) : u.via = "FileUpload" /\ u.live

\* C11: while an upload started by handleFileUpload is unsettled, the
\* simulated uploadProgress never decreases and never exceeds 90; it becomes
\* 100 only when the Gateway call resolves.
C11_ProgressMonotoneCapped ==
    [][/\ UnsettledFileUpload /\ UnsettledFileUpload'
          => uploadProgress' >= uploadProgress /\ uploadProgress' <= 90
       /\ uploadProgress' = 100 /\ uploadProgress # 100
          => \E u \in BagToSet(uploads), response \in UploadResponses :
                handleFileUploadResolved(u, response)]_vars

\* The idle values after a failed upload.
IdleAfterFailure ==
    /\ FileUploadMounted(state)
    /\ state.error # Null
    /\ ~state.isLoading
    /\ ~isUploading
    /\ uploadProgress = 0

\* C12: after an upload by handleFileUpload fails, error holds the
\* normalized message, isLoading and the uploading flag are false and
\* uploadProgress is 0; these idle values persist until the user starts a
\* new upload (they survive every step the program takes by itself, which
\* with nothing else pending is a tick of a progress interval), and no
\* Gateway call is issued again.
C12_FailedUploadStaysIdle ==
    [][/\ \A u \in BagToSet(uploads), failure \in Failures :
             handleFileUploadRejected(u, failure) /\ u.live
             => /\ state'.error = interceptorMessage(failure)
                /\ IdleAfterFailure'
                /\ uploads' = Del(uploads, u)
       /\ /\ IdleAfterFailure /\ Pending = 0
          /\ \E own \in BOOLEAN, step \in ProgressSteps : progressTick(own, step)
          => IdleAfterFailure' /\ uploads' = uploads]_vars

(***************************************************************************)
(* Error propagation                                                       *)
(***************************************************************************)
\* The Gateway call of some operation was rejected with failure in this step.
CallFailed(failure) ==
    \/ \E u \in BagToSet(uploads) :
          handleFileUploadRejected(u, failure) \/ uploadPDFRejected(u, failure)
    \/ \E c \in BagToSet(chats) :
          handleSendMessageRejected(c, failure) \/ sendMessageRejected(c, failure)
    \/ \E l \in BagToSet(lookups) :
          loadChatHistoryRejected(l, failure) \/ restoreSessionRejected(l, failure)

\* C13: every operation that calls the Gateway (handleFileUpload,
\* usePDF.uploadPDF, chat send, loadChatHistory, restoreSession), when its
\* call fails, ends with a SET_ERROR dispatch or an error-typed message
\* appended to the transcript.
C13_FailureReachesStore ==
    [][\A failure \in Failures :
          CallFailed(failure)
          => \/ state'.error = interceptorMessage(failure)
             \/ /\ Len(state'.chatMessages) = Len(state.chatMessages) + 1
                /\ LastMessage(state').type = MESSAGE_TYPES.ERROR]_vars

(***************************************************************************)
(* Laws of the reducer                                                     *)
(***************************************************************************)
\* The reducer was the last function applied directly.
ReducerApplied == call.fn = "appReducer"

\* The store it was applied to and the action it was given.
Before == call.args[1]

Given == call.args[2]

IsPrefix(s, t) == Len(s) <= Len(t) /\ SubSeq(t, 1, Len(s)) = s

\* C14: whatever the store and the action, unless the action is CLEAR_CHAT or
\* RESET_STATE the chat messages before are a prefix of the chat messages
\* after, and ADD_CHAT_MESSAGE appends exactly its payload, so that messages
\* appended to an empty list are kept one each in the order they were added.
C14_ChatOnlyGrows ==
    ReducerApplied =>
        /\ Given.type \notin {"CLEAR_CHAT", "RESET_STATE"} =>
              IsPrefix(Before.chatMessages, result.chatMessages)
        /\ Given.type = "ADD_CHAT_MESSAGE" =>
              /\ Len(result.chatMessages) = Len(Before.chatMessages) + 1
              /\ result.chatMessages[Len(result.chatMessages)] = Given.payload
              /\ state = result

\* A second message was appended to a list of one.
C14_SecondAppended ==
    /\ ReducerApplied
    /\ Given.type = "ADD_CHAT_MESSAGE"
    /\ Len(Before.chatMessages) = 1
    /\ Given.payload # Before.chatMessages[1]
    /\ result.chatMessages = <<Before.chatMessages[1], Given.payload>>

\* The fields of the store other than those of a set.
OtherFields(fields) == DOMAIN Before \ fields

\* C15: SET_ERROR returns a store with isLoading false and error equal to the
\* payload, every other field as it was.
C15_SetErrorStopsLoading ==
    (ReducerApplied /\ Given.type = "SET_ERROR") =>
        /\ DOMAIN result = DOMAIN Before
        /\ result.isLoading = FALSE
        /\ result.error = Given.payload
        /\ \A f \in OtherFields({"isLoading", "error"}) : result[f] = Before[f]

\* SET_ERROR was applied to a loading store holding messages and another error.
C15_ErrorWhileLoading ==
    /\ ReducerApplied
    /\ Given.type = "SET_ERROR"
    /\ Before.isLoading
    /\ Before.error # Given.payload
    /\ Before.chatMessages # <<>>
    /\ Truthy(Before.sessionId)

\* C16: CLEAR_CHAT returns a store with no chat messages, no citations and no
\* error; pdfFile, pdfDocument, sessionId, currentPage, totalPages and
\* isLoading are as they were.
C16_ClearChatKeepsDocument ==
    (ReducerApplied /\ Given.type = "CLEAR_CHAT") =>
        /\ DOMAIN result = DOMAIN Before
        /\ result.chatMessages = <<>>
        /\ result.citations = <<>>
        /\ result.error = Null
        /\ \A f \in {"pdfFile", "pdfDocument", "sessionId", "currentPage",
                     "totalPages", "isLoading"} : result[f] = Before[f]

\* CLEAR_CHAT was applied to a loading store with a document, a session,
\* messages, citations and an error.
C16_ClearedLoadedStore ==
    /\ ReducerApplied
    /\ Given.type = "CLEAR_CHAT"
    /\ Before.chatMessages # <<>> /\ Before.citations # <<>> /\ Before.error # Null
    /\ Before.pdfFile # Null /\ Before.pdfDocument # Null /\ Before.sessionId # Null
    /\ Before.currentPage = 2 /\ Before.totalPages = 3 /\ Before.isLoading

\* C17: RESET_STATE returns a store equal, field by field, to the initial
\* default store, also when messages had been appended before.
C17_ResetIsInitial ==
    (ReducerApplied /\ Given.type = "RESET_STATE") =>
        /\ DOMAIN result = DOMAIN initialState
        /\ result.pdfFile = Null /\ result.pdfDocument = Null
        /\ result.currentPage = 1 /\ result.totalPages = 0
        /\ result.chatMessages = <<>> /\ result.citations = <<>>
        /\ result.isLoading = FALSE
        /\ result.sessionId = Null /\ result.error = Null

\* RESET_STATE was applied after two appends, with every field changed.
C17_ResetAfterAppends ==
    /\ ReducerApplied
    /\ Given.type = "RESET_STATE"
    /\ Len(Before.chatMessages) = 2
    /\ \A f \in DOMAIN initialState : Before[f] # initialState[f]

\* The action types the reducer has a case for.
actionTypes ==
    {"SET_PDF_FILE", "SET_PDF_DOCUMENT", "SET_CURRENT_PAGE", "SET_TOTAL_PAGES",
     "ADD_CHAT_MESSAGE", "SET_LOADING", "SET_SESSION_ID", "SET_ERROR",
     "CLEAR_ERROR", "ADD_CITATION", "CLEAR_CHAT", "RESET_STATE"}

\* C18: an action whose type the reducer does not recognise returns the store
\* it was given, unchanged, and reports nothing.
C18_UnknownActionIsIdentity ==
    (ReducerApplied /\ Given.type \notin actionTypes) =>
        /\ result = Before
        /\ state = Before

\* An unrecognised action was applied to a store away from the defaults.
C18_UnknownOnLoadedStore ==
    /\ ReducerApplied
    /\ Given.type \notin actionTypes
    /\ Before.chatMessages # <<>>
    /\ Before.error = Null
    /\ Before.isLoading

(***************************************************************************)
(* Citations                                                               *)
(***************************************************************************)
\* extractCitations has returned.
Extracted == call.fn = "extractCitations" /\ call.returned

\* The characters of the text it was applied to.
ReplyText == call.args[1].str

\* "(Page N)" stands at position i of cs with N of n digits: an opening
\* parenthesis, the word in any letter case, a space, the digits, a closing
\* parenthesis.
PageReferenceAt(cs, i, n) ==
    /\ i + 6 + n <= Len(cs)
    /\ cs[i] = "("
    /\ cs[i + 1] \in {"P", "p"} /\ cs[i + 2] \in {"A", "a"}
    /\ cs[i + 3] \in {"G", "g"} /\ cs[i + 4] \in {"E", "e"}
    /\ cs[i + 5] = " "
    /\ \A k \in 1..n : IsDigit(cs[i + 5 + k])
    /\ cs[i + 6 + n] = ")"

\* The digit strings N of the occurrences of "(Page N)" from position i on,
\* in order of occurrence.
RECURSIVE PageReferences(_, _)
PageReferences(cs, i) ==
    IF i > Len(cs) THEN <<>>
    ELSE LET ns == {n \in 1..Len(cs) : PageReferenceAt(cs, i, n)}
         IN  (IF ns = {} THEN <<>>
              ELSE <<SubSeq(cs, i + 6, i + 5 + CHOOSE n \in ns : TRUE)>>)
             \o PageReferences(cs, i + 1)

\* C19: for every reply text extractCitations returns one citation per
\* occurrence of "(Page N)" (any letter case, N a digit string), in order of
\* occurrence, each with page N, confidence 0.9 and type page_reference, and
\* nothing else.
C19_OneCitationPerPageReference ==
    Extracted =>
        LET references == PageReferences(ReplyText, 1)
        IN  /\ Len(result) = Len(references)
            /\ \A k \in 1..Len(references) :
                  /\ result[k].page = parseInt(references[k])
                  /\ result[k].confidence = "0.9"
                  /\ result[k].type = "page_reference"

\* The same with one or more white-space characters, w of them, where
\* "(Page N)" has its space.
SpacedReferenceAt(cs, i, w, n) ==
    /\ i + 5 + w + n <= Len(cs)
    /\ cs[i] = "("
    /\ cs[i + 1] \in {"P", "p"} /\ cs[i + 2] \in {"A", "a"}
    /\ cs[i + 3] \in {"G", "g"} /\ cs[i + 4] \in {"E", "e"}
    /\ \A k \in 1..w : cs[i + 4 + k] \in {" ", "\t", "\n"}
    /\ \A k \in 1..n : IsDigit(cs[i + 4 + w + k])
    /\ cs[i + 5 + w + n] = ")"

RECURSIVE SpacedReferences(_, _)
SpacedReferences(cs, i) ==
    IF i > Len(cs) THEN <<>>
    ELSE LET wn == {p \in (1..Len(cs)) \X (1..Len(cs)) :
                       SpacedReferenceAt(cs, i, p[1], p[2])}
         IN  (IF wn = {} THEN <<>>
              ELSE LET p == CHOOSE p \in wn : TRUE
                   IN  <<SubSeq(cs, i + 5 + p[1], i + 4 + p[1] + p[2])>>)
             \o SpacedReferences(cs, i + 1)

\* C19, amended: for every reply text extractCitations returns one citation
\* per occurrence of "(Page", one or more white-space characters, a digit
\* string N and ")" (any letter case), in order of occurrence, each with page
\* N, confidence 0.9 and type page_reference, and nothing else.
C19_OneCitationPerSpacedReference ==
    Extracted =>
        LET references == SpacedReferences(ReplyText, 1)
        IN  /\ Len(result) = Len(references)
            /\ \A k \in 1..Len(references) :
                  /\ result[k].page = parseInt(references[k])
                  /\ result[k].confidence = "0.9"
                  /\ result[k].type = "page_reference"

\* "See (Page 5) and (page 12)" gave the pages 5 and 12.
C19_SeePage5AndPage12 ==
    /\ Extracted
    /\ ReplyText = <<"S", "e", "e", " ", "(", "P", "a", "g", "e", " ", "5", ")",
                     " ", "a", "n", "d", " ", "(", "p", "a", "g", "e", " ", "1", "2", ")">>
    /\ Len(result) = 2
    /\ result[1].page = 5 /\ result[2].page = 12

\* renderMessage has returned the chips of a message.
Rendered == call.fn = "renderMessage" /\ call.returned

\* The citations stored on the message it was given.
Stored == call.args[1].citations

\* The places in a list of citations where a page stands.
PlacesOf(citations, page) == {i \in 1..Len(citations) : citations[i].page = page}

Least(places) == CHOOSE i \in places : \A j \in places : i <= j

Greatest(places) == CHOOSE i \in places : \A j \in places : i >= j

\* C20: the chips rendered for a message are one per distinct page of its
\* stored citations, in the order in which the pages first occur, each chip
\* the last citation stored for its page; the stored list is not changed.
C20_OneChipPerPage ==
    Rendered =>
        /\ {result[k].page : k \in 1..Len(result)} =
              {Stored[i].page : i \in 1..Len(Stored)}
        /\ \A k, l \in 1..Len(result) :
              k < l => /\ result[k].page # result[l].page
                       /\ Least(PlacesOf(Stored, result[k].page))
                            < Least(PlacesOf(Stored, result[l].page))
        /\ \A k \in 1..Len(result) :
              result[k] = Stored[Greatest(PlacesOf(Stored, result[k].page))]
        /\ state.chatMessages[1].citations = Stored

\* Two citations of page 3 and one of page 7 were rendered as two chips, 3
\* then 7, the chip of page 3 being the second citation stored.
C20_TwoChipsForThree ==
    /\ Rendered
    /\ Len(Stored) = 3
    /\ <<Stored[1].page, Stored[2].page, Stored[3].page>> = <<3, 3, 7>>
    /\ Stored[1] # Stored[2]
    /\ Len(result) = 2
    /\ result[1] = Stored[2] /\ result[2] = Stored[3]

(***************************************************************************)
(* Navigation                                                              *)
(***************************************************************************)
\* A citation chip was clicked last.
Clicked == call.fn = "handleCitationClick"

\* The citation of the chip.
Citation == call.args[1]

\* What a click that navigates to page does, in order: the store's current
\* page is set, then one navigateToPage notification with the page goes out.
SetThenNotify(page) ==
    /\ state = [call.state EXCEPT !.currentPage = page]
    /\ Len(result) = 2
    /\ result[1].fn = "dispatch"
    /\ result[1].action = [type |-> "SET_CURRENT_PAGE", payload |-> page]
    /\ result[2].fn = "window.dispatchEvent"
    /\ result[2].type = "navigateToPage"
    /\ result[2].detail = [page |-> page]

\* C21: a click on a chip whose citation has a page sets currentPage to that
\* page and then emits one navigateToPage notification carrying it; a click
\* on a chip whose citation has no page changes no field of the store and
\* emits nothing.
C21_ClickNavigatesToDefinedPage ==
    Clicked =>
        IF "page" \in DOMAIN Citation
        THEN SetThenNotify(Citation.page)
        ELSE state = call.state /\ result = <<>>

\* C21, amended: a click on a chip whose citation has a page other than 0 sets
\* currentPage to that page and then emits one navigateToPage notification
\* carrying it; a click on a chip whose citation has no page, or page 0,
\* changes no field of the store and emits nothing.
C21_ClickNavigatesToNonZeroPage ==
    Clicked =>
        IF "page" \in DOMAIN Citation /\ Citation.page # 0
        THEN SetThenNotify(Citation.page)
        ELSE state = call.state /\ result = <<>>

\* A chip of page 2 was clicked while another page was current.
C21_ClickedPage2 ==
    /\ Clicked
    /\ "page" \in DOMAIN Citation /\ Citation.page = 2
    /\ call.state.currentPage # 2
    /\ state.currentPage = 2
    /\ Len(result) = 2

\* A navigation operation of usePDF was called last.
Navigated == call.fn \in {"goToPage", "nextPage", "prevPage", "firstPage", "lastPage"}

\* The page the operation was to go to, from the store it was called on.
Target ==
    CASE call.fn = "goToPage"  -> call.args[1]
      [] call.fn = "nextPage"  -> call.state.currentPage + 1
      [] call.fn = "prevPage"  -> call.state.currentPage - 1
      [] call.fn = "firstPage" -> 1
      [] call.fn = "lastPage"  -> call.state.totalPages

InRange(page, s) == page >= 1 /\ page <= s.totalPages

\* C26: after any navigation operations and chip clicks currentPage is at
\* least 1 and, when totalPages is above 0, at most totalPages; a navigation
\* operation whose target is out of range returns false and leaves
\* currentPage as it was.
C26_CurrentPageInRange ==
    /\ state.currentPage >= 1
    /\ state.totalPages > 0 => state.currentPage <= state.totalPages
    /\ (Navigated /\ ~InRange(Target, call.state)) =>
          result = FALSE /\ state.currentPage = call.state.currentPage

(***************************************************************************)
(* Gateway failures                                                        *)
(***************************************************************************)
\* A caller's catch has its message for a rejected gateway call.
Reported == call.fn = "handleApiError" /\ call.returned

\* The rejected call.
Failure == call.args[1]

\* The fixed messages of the statuses that have one.
FixedMessage ==
    (401 :> "Unauthorized access") @@ (403 :> "Access forbidden")
    @@ (404 :> "Resource not found")
    @@ (429 :> "Too many requests. Please try again later.")
    @@ (500 :> "Internal server error. Please try again.")

\* The codes of the other statuses as they are written in a message.
CodeText == (422 :> "422") @@ (503 :> "503")

\* C22: a rejected gateway call becomes one non-empty message fixed by its
\* kind: 401, 403, 404, 429 and 500 give their fixed message, 400 a message
\* that starts with "Bad Request", any other status "Server error (code)"
\* and more, no response the "Unable to connect to server" message;
\* handleApiError hands that message on unchanged and does not use the
\* caller's default for it.
C22_FailureKindFixesMessage ==
    Reported =>
        /\ result.str # <<>>
        /\ \A i \in 1..Len(result.str) : result.str[i] # ""
        /\ result = GatewayError(Failure).message
        /\ result # call.args[2]
        /\ Failure.kind = "response" =>
              /\ Failure.status \in DOMAIN FixedMessage =>
                    result = Str(<<FixedMessage[Failure.status]>>)
              /\ Failure.status = 400 => result.str[1] = "Bad Request: "
              /\ Failure.status \in DOMAIN CodeText =>
                    /\ Len(result.str) >= 3
                    /\ SubSeq(result.str, 1, 3) =
                          <<"Server error (", CodeText[Failure.status], "): ">>
        /\ Failure.kind = "request" =>
              result = Str(<<"Unable to connect to server. Please check your connection.">>)

\* A call answered with 404 and a body of its own was reported.
C22_NotFoundReported ==
    /\ Reported
    /\ Failure.kind = "response" /\ Failure.status = 404
    /\ Failure.data # Null /\ "detail" \in DOMAIN Failure.data
    /\ result = Str(<<"Resource not found">>)

(***************************************************************************)
(* Sessions                                                                *)
(***************************************************************************)
\* The entries of local storage that belong to a session.
SessionEntries == {STORAGE_KEYS.SESSION_ID, STORAGE_KEYS.CHAT_HISTORY}

\* C23: after the New Chat button and after usePDF.clearPDF local storage
\* holds neither the session id nor the chat history of the session before.
C23_ResetForgetsSession ==
    [][(newChat \/ clearPDF) =>
          \A key \in SessionEntries \cap DOMAIN localStorage' :
              localStorage'[key] = Null]_vars

(***************************************************************************)
(* Object URLs                                                             *)
(***************************************************************************)
\* C24: every object URL the viewer created is revoked when pdfFile changes
\* or the viewer is unmounted: at most one created URL is unrevoked at any
\* time, it is the URL of the current pdfFile, and none is left once the
\* viewer is gone.
C24_ObjectURLsRevoked ==
    /\ BagCardinality(objectURLs) <= 1
    /\ \A url \in BagToSet(objectURLs) : url.of = state.pdfFile
    /\ ~ViewerMounted(state) => objectURLs = EmptyBag

\* The viewer is gone, a chat request of its time still in flight, and no
\* object URL is left.
C24_ViewerGone ==
    /\ ~ViewerMounted(state)
    /\ \E c \in BagToSet(chats) : c.via = "ChatInterface" /\ ~c.live
    /\ objectURLs = EmptyBag

(***************************************************************************)
(* Message ids                                                             *)
(***************************************************************************)
\* C25: the messages that are in chatMessages at the same time have pairwise
\* distinct ids, whatever the timing of sends and replies.
C25_DistinctIds ==
    \A i, j \in 1..Len(state.chatMessages) :
        ("id" \in DOMAIN state.chatMessages[i] /\ "id" \in DOMAIN state.chatMessages[j]
         /\ i # j)
        => state.chatMessages[i].id # state.chatMessages[j].id

\* C27: a reply or a failure of a chat request issued before RESET_STATE is
\* never appended after it: while sessionId is null, as RESET_STATE leaves it,
\* chatMessages is empty.
C27_NoReplyAfterReset == state.sessionId = Null => state.chatMessages = <<>>

\* C28: in every reachable store state a non-null sessionId comes with a
\* non-null pdfFile.
C28_SessionHasFile == state.sessionId # Null => state.pdfFile # Null

\* An upload through usePDF resolves in this step.
UploadSucceeds ==
    \E u \in BagToSet(uploads), response \in FreshUploadResponses :
        uploadPDFResolved(u, response)

\* C29: from a successful upload to the next reset, sessionId is the id the
\* backend returned for the most recent successful upload: between two store
\* states that both hold a pdfFile, only a successful upload changes
\* sessionId, and so a restoreSession that resolves then does not.
C29_UploadIdKept ==
    [][(state.pdfFile # Null /\ state'.pdfFile # Null /\ ~UploadSucceeds)
       => state'.sessionId = state.sessionId]_vars

\* The places of the citations without a page in cs.
Pageless(cs) == {i \in 1..Len(cs) : "page" \notin DOMAIN cs[i]}

\* C30: the chips rendered for a message hold every stored citation that has
\* no page, each as a chip of its own: as many chips without a page as stored
\* citations without a page, and every such stored citation among them.
C30_PagelessChipsKept ==
    Rendered =>
        /\ Cardinality(Pageless(result)) = Cardinality(Pageless(Stored))
        /\ \A i \in Pageless(Stored) : \E k \in Pageless(result) : result[k] = Stored[i]

====
